---- MODULE Spec2Model ----
(***************************************************************************)
(* DataSHIELD client: the multi-server session orchestrator (DSSession of  *)
(* datashield/api.py) over the DSConnection / DSDriver / DSResult          *)
(* capabilities of datashield/interface.py.                                *)
(*                                                                         *)
(* A server (and its connection) is named by a number 1..MaxLogins.  The   *)
(* remote servers are the environment: what each of their calls answers    *)
(* (a value, or an exception of some kind) is an input of the action that  *)
(* makes the call.  Every call made on a driver, a connection or a result  *)
(* is appended to `calls` with its argument and its outcome.               *)
(*                                                                         *)
(* pc is the position of the single control thread:                        *)
(*   "idle"          the caller holds control, no operation is running     *)
(*   "sessions_done" sessions() has just returned, to its caller or to the *)
(*                   batch operation that called it                        *)
(*   "fanout"        a batch operation is past its sessions() call         *)
(*   "done"          an operation has just ended: open, close or a batch   *)
(*                   operation returned or raised, or sessions() raised    *)
(* Return hands control back to the caller; it forgets the record of the   *)
(* ended operation (calls, raised, returned, rval) and keeps the object's  *)
(* fields.                                                                 *)
(***************************************************************************)
EXTENDS Integers, Sequences, FiniteSets, TLC

\* ------------------------------------------------------------------ bounds
MaxLogins == 3
MaxPolls == 1
MaxPasses == 2
RoundTripServers == 2
MaxConfigFiles == 2
LoopServers == 2

\* ------------------------------------------------------------------ values
NoneVal == "<None>"

\* Python truthiness of an optional string argument (`if save:`, `if name:`).
Truthy(s) == s # NoneVal /\ s # ""

\* An exception: its class, the call that raised it, the server it is about
\* (0 when the orchestrator itself raises it).
Err(kind, origin, server) == [kind |-> kind, origin |-> origin, server |-> server]
NoError == Err("none", "none", 0)
TypeErrorNone == Err("TypeError", "conns_is_None", 0)

\* One call on a collaborator: connection (server) name, method, argument
\* tuple, outcome ("ok", "True", "False", or the class of the exception).
Call(c, m, a, out) == [conn |-> c, op |-> m, arg |-> a, out |-> out]

EmptyMap == [x \in {} |-> NoError]
MapSet(m, k, v) == [x \in (DOMAIN m) \cup {k} |-> IF x = k THEN v ELSE m[x]]

\* m1 after every entry of m2 has been stored in it (m1[k] = v, k by k).
Overlay(m1, m2) ==
    [x \in (DOMAIN m1) \cup (DOMAIN m2) |-> IF x \in DOMAIN m2 THEN m2[x] ELSE m1[x]]

SeqToSet(s) == {s[i] : i \in 1..Len(s)}

RECURSIVE SelectNotIn(_, _)
SelectNotIn(s, excl) ==
    IF s = <<>> THEN <<>>
    ELSE IF Head(s) \in excl THEN SelectNotIn(Tail(s), excl)
         ELSE <<Head(s)>> \o SelectNotIn(Tail(s), excl)

\* f"{conn.name}:{save}"
WorkspaceName(c, name) == <<c, ":", name>>

VARIABLES
    logins,        \* self.logins: the login names, in registry order (api.py 101)
    conns,         \* self.conns: the names of the live connections, in order (api.py 104)
    connsIsNone,   \* self.conns is None (before open(), after close())
    errors,        \* self.errors: server name -> exception (api.py 105)
    errorsIsNone,  \* self.errors is None (before the first operation)
    session,       \* per live connection, its R session: "none", "pending", "started"
    pc,            \* position of the control thread
    cur,           \* the running (or just ended) operation and its arguments
    lastOp,        \* "close" when the operation that ended before was a close() that returned
    calls,         \* the calls the operation made on drivers, connections, results
    raised,        \* the exception the operation raised to its caller (NoError: none)
    returned,      \* the operation returned normally
    rval,          \* the operation's local rval when it ended
    excluded,      \* excluded_conns of the operation's sessions() call (api.py 315)
    items,         \* DSLoginBuilder.items: the registry, a list of DSLoginInfo (api.py 22)
    lastCall,      \* the builder or configuration call that has just ended:
                   \* arguments, outcome, and the registry as it was before the
                   \* call (op "none": the caller holds control)
    addedBefore    \* history of the registry: <<a, b>> when a and b are registered
                   \* and the add() of a came before the add() of b (<<a, a>>
                   \* when a is registered)

VARIABLES
    serverModel,   \* what is known of the remote servers: "any" (they answer
                   \* anything) or "symbol_set" (each holds the set of symbols
                   \* assigned and not removed in its R session)
    symbols,       \* per server, the symbols its R session holds ("symbol_set")
    roundTrip      \* what the operation that ended before this one did to the
                   \* servers' symbols ("symbol_set")

builderVars == <<items, lastCall, addedBefore>>
serverVars == <<serverModel, symbols, roundTrip>>

vars == <<logins, conns, connsIsNone, errors, errorsIsNone,
          session, pc, cur, lastOp, calls, raised, returned, rval, excluded,
          builderVars, serverVars>>


Names == 1..MaxLogins

\* ------------------------------------------------------------- accessors
get_connection_names == IF connsIsNone \/ conns = <<>> THEN <<>> ELSE conns

\* has_connections(): len(self.conns) > 0, and len(None) raises TypeError.
has_connections ==
    IF connsIsNone THEN "TypeError" ELSE IF Len(conns) > 0 THEN "True" ELSE "False"

\* len(self.errors) > 0; a TypeError while errors is None (before open()).
has_errors == DOMAIN errors # {}

get_errors == errors

\* ------------------------------------------------------- DSLoginBuilder
\* A server name that is None.
NoName == 0

\* DSLoginInfo(name=, url=, user=, token=): the fields the builder reads;
\* password, profile and driver are carried along unread.
LoginInfo(name, url, user, token) ==
    [name |-> name, url |-> url, user |-> user, token |-> token]

\* Whether constructing the DSLoginInfo raises pydantic's ValidationError:
\* name and url are required strings, the other fields are optional and the
\* class declares no validator.
LoginInfoRejected(name, url, user, token) == name = NoName \/ url = NoneVal

\* An add() that does not look for the name in the registry.
NameNeverTaken(its, name) == FALSE

\* found = [x for x in self.items if x.name == name]; len(found) > 0
NameTaken(its, name) == \E i \in 1..Len(its) : its[i].name = name

\* An add() that wants both a user and a token.
CredentialsIncomplete(user, token) == user = NoneVal \/ token = NoneVal

\* user is None and token is None
CredentialsMissing(user, token) == user = NoneVal /\ token = NoneVal

\* The exception add() raises for these arguments, in the order of its tests.
AddError(its, name, url, user, token) ==
    IF name = NoName THEN Err("ValueError", "name_missing", 0)
    ELSE IF url = NoneVal THEN Err("ValueError", "url_missing", 0)
    ELSE IF NameTaken(its, name) THEN Err("ValueError", "name_not_unique", name)
    ELSE IF CredentialsMissing(user, token) THEN Err("ValueError", "no_credentials", 0)
    ELSE IF LoginInfoRejected(name, url, user, token) THEN Err("ValidationError", "DSLoginInfo", 0)
    ELSE NoError

\* An append that puts the new entry first.
PutFirst(its, info) == <<info>> \o its

\* self.items.append(DSLoginInfo(...))
AppendItem(its, info) == Append(its, info)

\* add(): the registry afterwards and the exception raised.
AddResult(its, name, url, user, token) ==
    LET e == AddError(its, name, url, user, token)
    IN [items |-> IF e = NoError THEN AppendItem(its, LoginInfo(name, url, user, token))
                  ELSE its,
        raised |-> e]

\* A remove() that also drops what comes after the entry.
ItemsBefore(its, name) ==
    IF NameTaken(its, name)
    THEN SubSeq(its, 1, (CHOOSE i \in 1..Len(its) : its[i].name = name) - 1)
    ELSE its

\* remove(): self.items = [x for x in self.items if x.name != name]
RECURSIVE ItemsWithout(_, _)
ItemsWithout(its, name) ==
    IF its = <<>> THEN <<>>
    ELSE IF Head(its).name = name THEN ItemsWithout(Tail(its), name)
         ELSE <<Head(its)>> \o ItemsWithout(Tail(its), name)

\* build(): return self.items
build == items

\* --------------------------------------------------------------- close()
\* A close() that catches nothing.
CloseCatchesNothing(kind) == FALSE

\* `except DSError:` around save_workspace + disconnect.
CloseCatches(kind) == kind = "DSError"

\* The body of the for loop of close() for the connections cs[i..], given
\* the outcome of each connection's save_workspace (sv) and disconnect (dc).
\* Result: the calls made and the exception that left the loop, if any.
RECURSIVE CloseLoop(_, _, _, _, _, _)
CloseLoop(cs, i, save, sv, dc, log) ==
    IF i > Len(cs) THEN [calls |-> log, raised |-> NoError]
    ELSE LET c == cs[i]
             saveCall == Call(c, "save_workspace", WorkspaceName(c, save), sv[c])
             discCall == Call(c, "disconnect", <<>>, dc[c])
         IN IF Truthy(save) /\ sv[c] # "ok"
            THEN IF CloseCatches(sv[c])
                 THEN CloseLoop(cs, i + 1, save, sv, dc, Append(log, saveCall))
                 ELSE [calls |-> Append(log, saveCall),
                       raised |-> Err(sv[c], "save_workspace", c)]
            ELSE LET log1 == IF Truthy(save) THEN Append(log, saveCall) ELSE log
                     log2 == Append(log1, discCall)
                 IN IF dc[c] = "ok" \/ CloseCatches(dc[c])
                    THEN CloseLoop(cs, i + 1, save, sv, dc, log2)
                    ELSE [calls |-> log2, raised |-> Err(dc[c], "disconnect", c)]

\* What remains in self.conns when close() ends: None once the loop is over,
\* untouched when an exception left the loop.
ConnsAfterClose(cs, loopRaised) == IF loopRaised = NoError THEN <<>> ELSE cs

\* close(save) on a session whose conns is cs (None when isNone).
CloseResult(cs, isNone, save, sv, dc) ==
    IF isNone
    THEN [conns |-> <<>>, connsIsNone |-> TRUE, errors |-> EmptyMap,
          calls |-> <<>>, raised |-> TypeErrorNone]
    ELSE LET r == CloseLoop(cs, 1, save, sv, dc, <<>>)
         IN [conns |-> ConnsAfterClose(cs, r.raised),
             connsIsNone |-> (r.raised = NoError),
             errors |-> EmptyMap, calls |-> r.calls, raised |-> r.raised]

\* ---------------------------------------------------------------- open()
\* The exception e of a failed connection creation (`except Exception as e`),
\* whether DSDriver.load_class or new_connection raised it.
CreationError(name) == Err("Exception", "creation", name)

\* mk: "ok", or the call that raises: "load_class" when the driver cannot be
\* resolved, "new_connection" when the driver fails.
CreationCalls(name, mk, restore) ==
    IF mk = "load_class"
    THEN <<Call(name, "load_class", <<>>, "Exception")>>
    ELSE <<Call(name, "load_class", <<>>, "ok"),
           Call(name, "new_connection", <<restore>>,
                IF mk = "ok" THEN "ok" ELSE "Exception")>>

\* An open() that keeps the last error only (self.errors = {info.name: e}).
RecordOpenErrorAlone(errs, name, e) == MapSet(EmptyMap, name, e)

\* self.errors[info.name] = e
RecordOpenError(errs, name, e) == MapSet(errs, name, e)

\* What `raise e` after self.close() delivers: an exception leaving close()
\* replaces e.
RaisedAfterClose(e, closeRaised) == IF closeRaised # NoError THEN closeRaised ELSE e

\* The for loop of open() from login i on; st holds conns, errors, calls.
RECURSIVE OpenLoop(_, _, _, _, _, _, _)
OpenLoop(ls, i, restore, failSafe, mk, dc, st) ==
    IF i > Len(ls)
    THEN [conns |-> st.conns, connsIsNone |-> FALSE, errors |-> st.errors,
          calls |-> st.calls, raised |-> NoError]
    ELSE LET name == ls[i]
             log == st.calls \o CreationCalls(name, mk[name], restore)
         IN IF mk[name] = "ok"
            THEN OpenLoop(ls, i + 1, restore, failSafe, mk, dc,
                          [conns |-> Append(st.conns, name), errors |-> st.errors,
                           calls |-> log])
            ELSE IF failSafe
                 THEN OpenLoop(ls, i + 1, restore, failSafe, mk, dc,
                               [conns |-> st.conns,
                                errors |-> RecordOpenError(st.errors, name,
                                                           CreationError(name)),
                                calls |-> log])
                 ELSE LET c == CloseResult(st.conns, FALSE, NoneVal, dc, dc)
                      IN [conns |-> c.conns, connsIsNone |-> c.connsIsNone,
                          errors |-> c.errors, calls |-> log \o c.calls,
                          raised |-> RaisedAfterClose(CreationError(name),
                                                      c.raised)]

OpenResult(ls, restore, failSafe, mk, dc) ==
    OpenLoop(ls, 1, restore, failSafe, mk, dc,
             [conns |-> <<>>, errors |-> EmptyMap, calls |-> <<>>])

\* ------------------------------------------------------------ sessions()
\* What one server does about its R session during a sessions() call:
\* start  "ok" / "raise": the outcome of start_session, if it is called;
\* kind   "started": is_session_started answers True from poll `at` on,
\*        "raise": it raises at poll `at`, "never": it keeps answering False;
\* poll 0 is the check before the wait loop, poll j the one of iteration j.
Beh(start, kind, at) == [start |-> start, kind |-> kind, at |-> at]

\* A connection that never reports its session.
HasSessionNever(sess, c) == FALSE

\* has_session()
HasSession(sess, c) == sess[c] # "none"

\* The answer of is_session_started() at poll j: "True", "False" or
\* "Exception".  A session that answered True keeps answering True.
Poll(sess, sb, c, j) ==
    IF sess[c] = "started" THEN "True"
    ELSE IF sb[c].kind = "started" /\ sb[c].at <= j THEN "True"
    ELSE IF sb[c].kind = "raise" /\ sb[c].at <= j THEN "Exception"
    ELSE "False"

\* for conn in self.conns: if not has_session(): start_session(asynchronous=True)
RECURSIVE StartLoop(_, _, _, _)
StartLoop(cs, i, sb, st) ==
    IF i > Len(cs) THEN st
    ELSE LET c == cs[i]
             has == HasSession(st.sess, c)
             hasCall == Call(c, "has_session", <<>>, IF has THEN "True" ELSE "False")
         IN IF has
            THEN StartLoop(cs, i + 1, sb, [st EXCEPT !.calls = Append(@, hasCall)])
            ELSE IF sb[c].start = "ok"
                 THEN StartLoop(cs, i + 1, sb,
                        [st EXCEPT !.calls = @ \o <<hasCall, Call(c, "start_session", <<TRUE>>, "ok")>>,
                                   !.sess = [@ EXCEPT ![c] = "pending"]])
                 ELSE StartLoop(cs, i + 1, sb,
                        [st EXCEPT !.calls = @ \o <<hasCall, Call(c, "start_session", <<TRUE>>, "Exception")>>,
                                   !.excluded = Append(@, c)])

\* One round of is_session_started() over the connections rem, at poll j.
RECURSIVE PollLoop(_, _, _, _, _)
PollLoop(rem, i, sb, j, st) ==
    IF i > Len(rem) THEN st
    ELSE LET c == rem[i]
             ans == Poll(st.sess, sb, c, j)
             log == Append(st.calls, Call(c, "is_session_started", <<>>, ans))
         IN PollLoop(rem, i + 1, sb, j,
              IF ans = "True"
              THEN [st EXCEPT !.calls = log, !.started = Append(@, c),
                              !.sess = [@ EXCEPT ![c] = "started"]]
              ELSE IF ans = "Exception"
              THEN [st EXCEPT !.calls = log, !.excluded = Append(@, c)]
              ELSE [st EXCEPT !.calls = log])

\* time.time() - start_time > self.start_timeout, at the top of iteration j
\* of the wait loop: the clock passes the timeout after maxIter iterations.
TimedOut(j, maxIter) == j > maxIter

\* A wait loop that is never entered.
StillWaitingNever(cs, st) == FALSE

\* while len(started_conns) < len(self.conns) - len(excluded_conns)
StillWaiting(cs, st) == Len(st.started) < Len(cs) - Len(st.excluded)

RECURSIVE WaitLoop(_, _, _, _, _)
WaitLoop(cs, sb, maxIter, j, st) ==
    IF ~StillWaiting(cs, st) THEN st
    ELSE IF TimedOut(j, maxIter)
         THEN [st EXCEPT !.raised = Err("DSError", "sessions_timeout", 0)]
         ELSE WaitLoop(cs, sb, maxIter, j + 1,
                PollLoop(SelectNotIn(cs, SeqToSet(st.started) \cup SeqToSet(st.excluded)),
                         1, sb, j, st))

\* The R session handle get_session() returns.
SessionHandle(c) == <<"RSession", c>>

RECURSIVE GetSessionCalls(_, _)
GetSessionCalls(cs, started) ==
    IF cs = <<>> THEN <<>>
    ELSE (IF Head(cs) \in started
          THEN <<Call(Head(cs), "get_session", <<>>, "ok")>> ELSE <<>>)
         \o GetSessionCalls(Tail(cs), started)

\* A sessions() that returns a handle for every connection it was called on.
SessionsMapOfAll(cs, started) == [c \in SeqToSet(cs) |-> SessionHandle(c)]

\* for conn in self.conns: if conn.name in started_conns:
\*     rval[conn.name] = conn.get_session()  (lines 353-355)
SessionsMap(cs, started) == [c \in SeqToSet(cs) \cap started |-> SessionHandle(c)]

\* A sessions() that forgets to drop the excluded connections.
ConnsKept(cs, excl) == cs

\* A sessions() that rebuilds the connection list back to front.
ConnsReversed(cs, excl) ==
    LET left == SelectNotIn(cs, SeqToSet(excl))
    IN [i \in 1..Len(left) |-> left[Len(left) + 1 - i]]

\* self.conns after the exclusions (lines 356-358).
ConnsAfterSessions(cs, excl) ==
    IF Len(excl) > 0 THEN SelectNotIn(cs, SeqToSet(excl)) ELSE cs

\* A sessions() that returns an empty map when no connection is left.
NoSessionsIgnored(left) == NoError

\* if len(self.conns) == 0: raise DSError (lines 359-360).
NoSessions(left) ==
    IF Len(left) = 0 THEN Err("DSError", "no_sessions", 0) ELSE NoError

\* A sessions() that leaves the error map as it finds it.
init_errors_kept(errs) == errs

\* _init_errors: self.errors = {} (line 531), the second statement of
\* sessions() (line 313).
init_errors(errs) == EmptyMap

\* A sessions() that records an error for every connection it excludes.
ExclusionsRecorded(excl) == [c \in SeqToSet(excl) |-> Err("Exception", "session", c)]

\* The error map at the end of sessions(): emptied by _init_errors (line
\* 313), and the exceptions of start_session and is_session_started are
\* logged (lines 323, 333, 349), never appended.
ErrorsAfterSessions(excl) == EmptyMap

\* sessions() on a session whose conns is cs (None when isNone), the
\* connections' sessions being in the states sess.
SessionsResult(cs, isNone, sess, sb, maxIter) ==
    IF isNone
    THEN [conns |-> cs, errors |-> EmptyMap, sess |-> sess, calls |-> <<>>,
          raised |-> TypeErrorNone, rval |-> EmptyMap, excluded |-> <<>>, started |-> <<>>]
    ELSE LET st0 == [sess |-> sess, calls |-> <<>>, excluded |-> <<>>,
                     started |-> <<>>, raised |-> NoError]
             st1 == StartLoop(cs, 1, sb, st0)
             st2 == PollLoop(SelectNotIn(cs, SeqToSet(st1.excluded)), 1, sb, 0, st1)
             st3 == WaitLoop(cs, sb, maxIter, 1, st2)
         IN IF st3.raised # NoError
            THEN [conns |-> cs, errors |-> ErrorsAfterSessions(st3.excluded),
                  sess |-> st3.sess, calls |-> st3.calls,
                  raised |-> st3.raised, rval |-> EmptyMap,
                  excluded |-> st3.excluded, started |-> st3.started]
            ELSE LET left == ConnsAfterSessions(cs, st3.excluded)
                 IN [conns |-> left, errors |-> ErrorsAfterSessions(st3.excluded),
                     sess |-> st3.sess,
                     calls |-> st3.calls \o GetSessionCalls(cs, SeqToSet(st3.started)),
                     raised |-> NoSessions(left),
                     rval |-> SessionsMap(cs, SeqToSet(st3.started)),
                     excluded |-> st3.excluded, started |-> st3.started]

\* -------------------------------------------------------- batch fan-out
\* The operations that wait for the results of the commands they issue.
WaitingOps == {"assign_table", "assign_resource", "assign_expr", "aggregate"}

\* What one server does about one command: issue "ok" / "raise" (the call
\* that issues the command), done: the pass of the wait loop from which
\* is_completed() answers True, fetch "ok" / "raise".
Out(issue, done, fetch) == [issue |-> issue, done |-> done, fetch |-> fetch]

NoneResult == <<"None">>

\* The value fetch() returns for the command `arg` issued to server c.
FetchedValue(c, method, arg) == <<"value", c, method, arg>>

\* The exception a server raises when a command is issued to it or when its
\* result is fetched.
CommandError(c) == Err("Exception", "command", c)

\* An _append_error that logs the error and does not store it.
append_error_lost(errs, c, e) == errs

\* An _append_error that stores the error under no server's name.
append_error_unnamed(errs, c, e) == MapSet(errs, 0, e)

\* An _append_error that keeps the first error of the call only.
append_error_first(errs, c, e) == IF DOMAIN errs = {} THEN MapSet(errs, c, e) ELSE errs

\* _append_error
append_error(errs, c, e) == MapSet(errs, c, e)

\* A _check_errors that never raises.
check_errors_never(errs) == Err("none", "none", 0)

\* A _check_errors that lets a single error pass.
check_errors_several(errs) ==
    IF Cardinality(DOMAIN errs) > 1 THEN Err("DSError", "check_errors", 0)
    ELSE Err("none", "none", 0)

\* _check_errors: the aggregate error raised when the error map is not empty.
AggregateError == Err("DSError", "check_errors", 0)
check_errors(errs) == IF DOMAIN errs # {} THEN AggregateError ELSE NoError

\* An argument resolution that ignores the override map.
ResolveDefault(default, overrides, c) == default

\* The effective argument of assign_table / assign_resource for server c:
\* the override map's value when c is a key of a non-empty map, else the
\* default.
Resolve(default, overrides, c) ==
    IF DOMAIN overrides # {} /\ c \in DOMAIN overrides THEN overrides[c] ELSE default

\* A pending map keyed by something that is no connection name.
PendingKeyUnnamed(c) == 0

\* cmd[conn.name] = res: the key under which the result of connection c is
\* pending.
PendingKey(c) == c

\* The issuing loop of a fan-out: for each connection, in order, issue
\* method(arg[c]) unless skip[c]; a raise is recorded in the error map (and
\* as a None entry of rval when placeholder is set).
RECURSIVE IssueLoop(_, _, _, _, _, _, _, _)
IssueLoop(cs, i, method, arg, skip, placeholder, io, st) ==
    IF i > Len(cs) THEN st
    ELSE LET c == cs[i]
         IN IF skip[c] THEN IssueLoop(cs, i + 1, method, arg, skip, placeholder, io, st)
            ELSE IF io[c].issue = "ok"
            THEN IssueLoop(cs, i + 1, method, arg, skip, placeholder, io,
                   [st EXCEPT !.calls = Append(@, Call(c, method, arg[c], "ok")),
                              !.cmd = @ \cup {PendingKey(c)}])
            ELSE IssueLoop(cs, i + 1, method, arg, skip, placeholder, io,
                   [st EXCEPT !.calls = Append(@, Call(c, method, arg[c], "Exception")),
                              !.errors = append_error(@, c, CommandError(c)),
                              !.rval = IF placeholder THEN MapSet(@, c, NoneResult) ELSE @])

\* A wait loop that keeps the last fetched value only (rval = {conn.name: ...}).
StoreResultAlone(rv, c, v) == MapSet(EmptyMap, c, v)

\* rval[conn.name] = res.fetch()
StoreResult(rv, c, v) == MapSet(rv, c, v)

\* res.is_completed() at pass p.
IsCompleted(io, c, p) == p >= io[c].done

\* A wait loop that fetches without asking whether the result is complete.
FetchBlind(c, out) == <<Call(c, "fetch", <<>>, out)>>

\* if res.is_completed(): ... res.fetch(), on a complete result.
FetchCalls(c, out) == <<Call(c, "is_completed", <<>>, "True"), Call(c, "fetch", <<>>, out)>>

\* A wait loop that leaves the idle connections alone.
IdleIgnored(c) == <<>>

\* else: conn.keep_alive(), on a connection without a pending result.
IdleCalls(c) == <<Call(c, "keep_alive", <<>>, "ok")>>

\* One pass of the wait loop over the connections.
RECURSIVE WaitPass(_, _, _, _, _, _, _)
WaitPass(cs, i, method, arg, io, p, st) ==
    IF i > Len(cs) THEN st
    ELSE LET c == cs[i]
         IN WaitPass(cs, i + 1, method, arg, io, p,
              IF c \in st.cmd
              THEN IF IsCompleted(io, c, p)
                   THEN IF io[c].fetch = "ok"
                        THEN [st EXCEPT
                                !.calls = @ \o FetchCalls(c, "ok"),
                                !.rval = StoreResult(@, c, FetchedValue(c, method, arg[c])),
                                !.cmd = @ \ {c}]
                        ELSE [st EXCEPT
                                !.calls = @ \o FetchCalls(c, "Exception"),
                                !.errors = append_error(@, c, CommandError(c)),
                                !.cmd = @ \ {c}]
                   ELSE [st EXCEPT !.calls = Append(@, Call(c, "is_completed", <<>>, "False"))]
              ELSE [st EXCEPT !.calls = @ \o IdleCalls(c)])

\* _do_wait(cmd): rval starts empty; passes until no command is pending.
RECURSIVE WaitPasses(_, _, _, _, _, _)
WaitPasses(cs, method, arg, io, p, st) ==
    IF st.cmd = {} THEN st
    ELSE WaitPasses(cs, method, arg, io, p + 1, WaitPass(cs, 1, method, arg, io, p, st))

\* A wait that goes on filling the caller's rval, placeholders included.
do_wait_into(cs, method, arg, io, st) == WaitPasses(cs, method, arg, io, 1, st)

\* rval = {} (line 510), then the passes; the caller's rval is replaced by
\* the returned map (rval = self._do_wait(cmd), line 498).
do_wait(cs, method, arg, io, st) ==
    WaitPasses(cs, method, arg, io, 1, [st EXCEPT !.rval = <<>>])

\* The body of a batch operation after its sessions() call.
\* waits: the operation drives _do_wait (assign_*, aggregate);
\* placeholder: a failed server gets a None entry in the local rval (ls, aggregate);
\* The result: errors, calls, the local rval at the end, the exception raised.
FanOutResult(cs, method, arg, skip, placeholder, waits, io) ==
    LET st0 == [calls |-> <<>>, cmd |-> {}, errors |-> EmptyMap, rval |-> <<>>]
        st1 == IssueLoop(cs, 1, method, arg, skip, placeholder, io, st0)
        st2 == IF waits THEN do_wait(cs, method, arg, io, st1) ELSE st1
    IN [errors |-> st2.errors, calls |-> st2.calls, rval |-> st2.rval,
        raised |-> check_errors(st2.errors)]

\* ls(): list_symbols() is synchronous, its value is stored at once.  The
\* value server c returns when its R session holds the symbols `held`.
SymbolsValue(c, held) == <<"symbols", c, held>>

RECURSIVE LsLoop(_, _, _, _, _)
LsLoop(cs, i, io, held, st) ==
    IF i > Len(cs) THEN st
    ELSE LET c == cs[i]
         IN IF io[c].issue = "ok"
            THEN LsLoop(cs, i + 1, io, held,
                   [st EXCEPT !.calls = Append(@, Call(c, "list_symbols", <<>>, "ok")),
                              !.rval = MapSet(@, c, SymbolsValue(c, held[c]))])
            ELSE LsLoop(cs, i + 1, io, held,
                   [st EXCEPT !.calls = Append(@, Call(c, "list_symbols", <<>>, "Exception")),
                              !.errors = append_error(@, c, CommandError(c)),
                              !.rval = MapSet(@, c, NoneResult)])

LsResult(cs, io, held) ==
    LET st == LsLoop(cs, 1, io, held, [calls |-> <<>>, errors |-> EmptyMap, rval |-> <<>>])
    IN [errors |-> st.errors, calls |-> st.calls, rval |-> st.rval,
        raised |-> check_errors(st.errors)]

\* ------------------------------------------------- the servers' symbols
\* The servers of the "symbol_set" model: a successful assignment adds its
\* symbol to the server's R session, rm_symbol removes it, list_symbols
\* returns the set.
AssignMethods == {"assign_table", "assign_resource", "assign_expr"}

NoSymbols == [n \in Names |-> {}]

\* What list_symbols() of an unknown server returns.
AnySymbols == [n \in Names |-> {"<any>"}]

\* <<c, symbol>> for every assignment of the call log that succeeded: it
\* was issued to server c and its result was fetched without an exception.
AssignedIn(log) ==
    {<<log[i].conn, log[i].arg[1]>> :
        i \in {j \in 1..Len(log) :
                 /\ log[j].op \in AssignMethods /\ log[j].out = "ok"
                 /\ \E k \in 1..Len(log) : log[k] = Call(log[j].conn, "fetch", <<>>, "ok")}}

\* <<c, symbol>> for every rm_symbol of the call log that succeeded.
RemovedIn(log) ==
    {<<log[i].conn, log[i].arg[1]>> :
        i \in {j \in 1..Len(log) : log[j].op = "rm_symbol" /\ log[j].out = "ok"}}

\* Servers that forget the symbols assigned to them.
SymbolsForgotten(held, log) == held

\* The servers' symbols after the calls of the log.
SymbolsAfterCalls(held, log) ==
    [c \in Names |-> (held[c] \cup {p[2] : p \in {q \in AssignedIn(log) : q[1] = c}})
                         \ {p[2] : p \in {q \in RemovedIn(log) : q[1] = c}}]

\* An R session ends with its connection: only live connections hold symbols.
LiveSymbols(held, cs) == [n \in Names |-> IF n \in SeqToSet(cs) THEN held[n] ELSE {}]

NoRoundTrip == [op |-> "other", did |-> {}]

\* What is kept of the ended operation op for the next one: the assignments
\* of an assign_table, the removals of an rm that ended without error.
RoundTripRecord(op, log, ok) ==
    IF op = "assign_table" THEN [op |-> "assign_table", did |-> AssignedIn(log)]
    ELSE IF op = "rm" /\ ok THEN [op |-> "rm", did |-> RemovedIn(log)]
    ELSE NoRoundTrip

\* ------------------------------------------------------------ input sets
Restores == {NoneVal, "ws"}
Saves == {NoneVal, "", "ws"}
CreationOutcomes == {"ok", "load_class", "new_connection"}
CloseOutcomes == {"ok", "DSError", "Exception"}
AllOk == [n \in Names |-> "ok"]

\* Outcomes over the servers in S, "ok" elsewhere.
OutcomesOver(S, outs) == {[n \in Names |-> IF n \in S THEN f[n] ELSE "ok"] : f \in [S -> outs]}

\* A loop that an exception leaves makes no call on the servers after the
\* one that raised: their outcomes, never drawn, are fixed to the quiet one.
NothingAfter(cs, stopped, quiet) ==
    \A i, j \in 1..Len(cs) : (i < j /\ stopped[cs[i]]) => quiet[cs[j]]

\* What a server of a sessions() call may do while the clock allows maxIter
\* iterations of the wait loop: a connection whose session is started
\* answers True; one that has a session is not started again; an answer due
\* after the timeout is never asked for ("never").
SessBehaviours(state, maxIter) ==
    IF state = "started" THEN {Beh("ok", "started", 0)}
    ELSE {Beh("ok", k, a) : k \in {"started", "raise"}, a \in 0..maxIter}
         \cup {Beh("ok", "never", 0)}
         \cup (IF state = "none" THEN {Beh("raise", "never", 0)} ELSE {})

\* The behaviours of the live connections cs, by the state of their session.
SessInputs(cs, sess, maxIter) ==
    LET In(k) == {n \in SeqToSet(cs) : sess[n] = k}
    IN {[n \in Names |-> IF n \in In("none") THEN f[n]
                         ELSE IF n \in In("pending") THEN g[n]
                         ELSE Beh("ok", "started", 0)] :
          f \in [In("none") -> SessBehaviours("none", maxIter)],
          g \in [In("pending") -> SessBehaviours("pending", maxIter)]}

OutDefault == Out("ok", 1, "ok")
OutBehaviours(waits) ==
    IF waits
    THEN {Out("raise", 1, "ok")} \cup {Out("ok", d, f) : d \in 1..MaxPasses, f \in {"ok", "raise"}}
    ELSE {Out("ok", 1, "ok"), Out("raise", 1, "ok")}

\* Outcomes for the servers in S (those a command is issued to).
OutInputs(S, waits) ==
    {[n \in Names |-> IF n \in S THEN f[n] ELSE OutDefault] : f \in [S -> OutBehaviours(waits)]}

Exprs == {"mean(D$x)"}
Symbols == {"D"}
Defaults == {NoneVal, "T"}
\* Per-server override maps (tables=, resources=) over the login names.
Overrides(S) == UNION {[K -> {"", "U"}] : K \in SUBSET S}

\* The session states of the live connections; a connection that has left
\* self.conns is no longer an object of the model.
LiveSessions(sess, cs) == [n \in Names |-> IF n \in SeqToSet(cs) THEN sess[n] ELSE "none"]

\* ------------------------------------------------------------------ Init
\* DSSession(logins) on the k logins of a name-unique registry, nothing
\* opened, over servers of the given model, beside an empty DSLoginBuilder().
Start(k, model) ==
    /\ logins = [i \in 1..k |-> i]
    /\ conns = <<>>
    /\ connsIsNone = TRUE
    /\ errors = EmptyMap
    /\ errorsIsNone = TRUE
    /\ session = [n \in Names |-> "none"]
    /\ pc = "idle"
    /\ cur = [op |-> "none"]
    /\ lastOp = "other"
    /\ calls = <<>>
    /\ raised = NoError
    /\ returned = FALSE
    /\ rval = EmptyMap
    /\ excluded = <<>>
    /\ items = <<>>
    /\ lastCall = [op |-> "none"]
    /\ addedBefore = {}
    /\ serverModel = model
    /\ symbols = NoSymbols
    /\ roundTrip = NoRoundTrip

Init == \E n \in 0..MaxLogins : Start(n, "any")

\* --------------------------------------------------------------- actions
\* The servers whose disconnect() open() can reach: those created before the
\* first failure, when open fails fast.
CreatedBeforeFailure(ls, mk) ==
    {ls[i] : i \in {j \in 1..Len(ls) : \A k \in 1..j : mk[ls[k]] = "ok"}}

Open ==
    /\ pc = "idle"
    /\ \E restore \in Restores, failSafe \in BOOLEAN,
          mk \in OutcomesOver(SeqToSet(logins), CreationOutcomes) :
         \E dc \in IF failSafe \/ mk = AllOk THEN {AllOk}
                   ELSE OutcomesOver(CreatedBeforeFailure(logins, mk), CloseOutcomes) :
           /\ failSafe \/ NothingAfter(logins, [n \in Names |-> mk[n] # "ok"],
                                        [n \in Names |-> mk[n] = "ok"])
           /\ NothingAfter(logins, [n \in Names |-> dc[n] = "Exception"],
                           [n \in Names |-> dc[n] = "ok"])
           /\ LET r == OpenResult(logins, restore, failSafe, mk, dc)
              IN /\ conns' = r.conns
                 /\ connsIsNone' = r.connsIsNone
                 /\ errors' = r.errors
                 /\ errorsIsNone' = FALSE
                 /\ session' = [n \in Names |-> "none"]
                 /\ calls' = r.calls
                 /\ raised' = r.raised
                 /\ returned' = (r.raised = NoError)
                 /\ rval' = EmptyMap
                 /\ excluded' = <<>>
                 /\ cur' = [op |-> "open", failSafe |-> failSafe]
                 /\ symbols' = NoSymbols
                 /\ pc' = "done"
    /\ UNCHANGED <<builderVars, serverModel, roundTrip, logins, lastOp>>

Close ==
    /\ pc = "idle"
    /\ \E save \in Saves :
         \E sv \in IF Truthy(save) /\ ~connsIsNone
                   THEN OutcomesOver(SeqToSet(conns), CloseOutcomes) ELSE {AllOk} :
           \E dc \in IF connsIsNone THEN {AllOk}
                     ELSE OutcomesOver({n \in SeqToSet(conns) : sv[n] = "ok"}, CloseOutcomes) :
             /\ NothingAfter(conns, [n \in Names |-> "Exception" \in {sv[n], dc[n]}],
                             [n \in Names |-> sv[n] = "ok" /\ dc[n] = "ok"])
             /\ LET r == CloseResult(conns, connsIsNone, save, sv, dc)
                IN /\ conns' = r.conns
                   /\ connsIsNone' = r.connsIsNone
                   /\ errors' = r.errors
                   /\ errorsIsNone' = FALSE
                   /\ calls' = r.calls
                   /\ raised' = r.raised
                   /\ returned' = (r.raised = NoError)
                   /\ rval' = EmptyMap
                   /\ excluded' = <<>>
                   /\ session' = LiveSessions(session, r.conns)
                   /\ symbols' = LiveSymbols(symbols, r.conns)
                   /\ cur' = [op |-> "close", save |-> save,
                              conns0 |-> IF connsIsNone THEN <<>> ELSE conns]
                   /\ pc' = "done"
    /\ UNCHANGED <<builderVars, serverModel, roundTrip, logins, lastOp>>

\* What is kept of the operation that has ended: whether it was a close()
\* that returned normally.
LastKind(op, ok) == IF op = "close" /\ ok THEN "close" ELSE "other"

\* The servers whose session is still awaited after the check before the
\* wait loop: only then is the clock read.
Awaited(cs, sess, sb) ==
    {c \in SeqToSet(cs) : /\ sess[c] # "started"
                          /\ sb[c].start = "ok"
                          /\ ~(sb[c].kind \in {"started", "raise"} /\ sb[c].at = 0)}

\* Those of them that keep the wait loop going up to iteration maxIter: the
\* clock is read that far only if there is one.
LastAwaited(cs, sess, sb, maxIter) ==
    {c \in Awaited(cs, sess, sb) : sb[c].kind = "never" \/ sb[c].at = maxIter}

\* self.sessions(): the whole of sessions(), and the first statement of ls,
\* rm, assign_table, assign_resource, assign_expr and aggregate.  Which of
\* the seven was called shows in the next step: it changes nothing here.
\* The operation ends here when sessions() raises.
EnsureSessions ==
    /\ pc = "idle"
    /\ \E maxIter \in IF connsIsNone THEN {0} ELSE 0..MaxPolls :
         \E sb \in SessInputs(IF connsIsNone THEN <<>> ELSE conns, session, maxIter) :
           /\ maxIter = 0 \/ LastAwaited(conns, session, sb, maxIter) # {}
           /\ LET r == SessionsResult(conns, connsIsNone, session, sb, maxIter)
              IN /\ conns' = r.conns
                 /\ errors' = Overlay(init_errors(errors), r.errors)
                 /\ errorsIsNone' = FALSE
                 /\ session' = LiveSessions(r.sess, r.conns)
                 /\ symbols' = LiveSymbols(symbols, r.conns)
                 /\ calls' = r.calls
                 /\ raised' = r.raised
                 /\ returned' = (r.raised = NoError)
                 /\ rval' = r.rval
                 /\ excluded' = r.excluded
                 /\ cur' = [op |-> "batch"]
                 /\ pc' = IF r.raised # NoError THEN "done" ELSE "sessions_done"
    /\ UNCHANGED <<builderVars, serverModel, roundTrip, logins, connsIsNone, lastOp>>

\* The call was sessions(): the session map goes to the caller, who holds
\* control again.
SessionsReturn ==
    /\ pc = "sessions_done"
    /\ pc' = "idle"
    /\ lastOp' = LastKind("sessions", TRUE)
    /\ cur' = [op |-> "none"]
    /\ calls' = <<>>
    /\ raised' = NoError
    /\ returned' = FALSE
    /\ rval' = EmptyMap
    /\ excluded' = <<>>
    /\ roundTrip' = NoRoundTrip
    /\ UNCHANGED <<builderVars, serverModel, symbols, logins, conns, connsIsNone, errors, errorsIsNone, session>>

\* The call was a batch operation: it goes on with its own loop, the session
\* map being dropped.
Proceed ==
    /\ pc = "sessions_done"
    /\ pc' = "fanout"
    /\ calls' = <<>>
    /\ rval' = EmptyMap
    /\ returned' = FALSE
    /\ UNCHANGED <<builderVars, serverVars, logins, conns, connsIsNone, errors, errorsIsNone,
                   session, cur, lastOp, raised, excluded>>

\* The end of the batch operation op whose loops gave r; keepsRval: the
\* operation returns its rval (ls, aggregate), the others return None.
EndBatch(op, r, keepsRval) ==
    /\ errors' = Overlay(errors, r.errors)
    /\ calls' = r.calls
    /\ raised' = r.raised
    /\ returned' = (r.raised = NoError)
    /\ rval' = IF keepsRval THEN r.rval ELSE EmptyMap
    /\ cur' = [op |-> op]
    /\ pc' = "done"
    /\ symbols' = IF serverModel = "symbol_set" THEN SymbolsAfterCalls(symbols, r.calls)
                  ELSE symbols
    /\ UNCHANGED <<builderVars, serverModel, roundTrip, logins, conns, connsIsNone,
                   errorsIsNone, session, lastOp, excluded>>

NoSkip == [n \in Names |-> FALSE]

Ls ==
    /\ pc = "fanout"
    /\ \E io \in OutInputs(SeqToSet(conns), FALSE) : 
         EndBatch("ls", LsResult(conns, io, IF serverModel = "symbol_set" THEN symbols
                                            ELSE AnySymbols), TRUE)

Rm ==
    /\ pc = "fanout"
    /\ \E symbol \in Symbols, io \in OutInputs(SeqToSet(conns), FALSE) :
         EndBatch("rm", FanOutResult(conns, "rm_symbol", [n \in Names |-> <<symbol>>],
                                     NoSkip, FALSE, FALSE, io), FALSE)

\* assign_table and assign_resource: the same loop over the resolved names.
AssignNamed(op) ==
    /\ pc = "fanout"
    /\ \E symbol \in Symbols, default \in Defaults, overrides \in Overrides(SeqToSet(conns)) :
         LET eff == [n \in Names |-> Resolve(default, overrides, n)]
             skip == [n \in Names |-> ~Truthy(eff[n])]
         IN \E io \in OutInputs({n \in SeqToSet(conns) : ~skip[n]}, TRUE) :
              EndBatch(op, FanOutResult(conns, op, [n \in Names |-> <<symbol, eff[n]>>],
                                        skip, FALSE, TRUE, io), FALSE)

AssignTable == AssignNamed("assign_table")
AssignResource == AssignNamed("assign_resource")

AssignExpr ==
    /\ pc = "fanout"
    /\ \E symbol \in Symbols, expr \in Exprs, io \in OutInputs(SeqToSet(conns), TRUE) :
         EndBatch("assign_expr",
                  FanOutResult(conns, "assign_expr", [n \in Names |-> <<symbol, expr>>],
                               NoSkip, FALSE, TRUE, io), FALSE)

Aggregate ==
    /\ pc = "fanout"
    /\ \E expr \in Exprs, io \in OutInputs(SeqToSet(conns), TRUE) :
         EndBatch("aggregate",
                  FanOutResult(conns, "aggregate", [n \in Names |-> <<expr>>],
                               NoSkip, TRUE, TRUE, io), TRUE)

\* The ended operation hands control back to its caller.
Return ==
    /\ pc = "done"
    /\ pc' = "idle"
    /\ lastOp' = LastKind(cur.op, raised = NoError)
    /\ cur' = [op |-> "none"]
    /\ calls' = <<>>
    /\ raised' = NoError
    /\ returned' = FALSE
    /\ rval' = EmptyMap
    /\ excluded' = <<>>
    /\ roundTrip' = IF serverModel = "symbol_set"
                    THEN RoundTripRecord(cur.op, calls, raised = NoError)
                    ELSE roundTrip
    /\ UNCHANGED <<builderVars, serverModel, symbols, logins, conns, connsIsNone, errors, errorsIsNone, session>>

Next ==
    \/ Open \/ Close
    \/ EnsureSessions \/ SessionsReturn \/ Proceed
    \/ Ls \/ Rm \/ AssignTable \/ AssignResource \/ AssignExpr \/ Aggregate
    \/ Return

Spec == Init /\ [][Next]_vars

\* The same orchestrator over servers that hold a symbol set.
RoundTripInit == \E n \in 1..RoundTripServers : Start(n, "symbol_set")

RoundTripSpec == RoundTripInit /\ [][Next]_vars

\* ----------------------------------------------- DSLoginBuilder: actions
sessionVars == <<logins, conns, connsIsNone, errors, errorsIsNone,
                 session, pc, cur, lastOp, calls, raised, returned, rval, excluded,
                 serverVars>>

NameArgs == Names \cup {NoName}
Urls == {NoneVal, "https://server"}
Users == {NoneVal, "user"}
Tokens == {NoneVal, "token"}

\* The names that were added and not removed since.
Registered == {n \in Names : <<n, n>> \in addedBefore}

\* DSLoginBuilder(): an empty registry, and no session made from it yet.
BuilderInit == Start(0, "any")

\* builder.add(name, url, user=, token=)
Add ==
    /\ lastCall.op = "none"
    /\ \E name \in NameArgs, url \in Urls, user \in Users, token \in Tokens :
         LET r == AddResult(items, name, url, user, token)
         IN /\ items' = r.items
            /\ lastCall' = [op |-> "add", info |-> LoginInfo(name, url, user, token),
                            raised |-> r.raised, before |-> items]
            /\ addedBefore' = IF r.raised = NoError
                              THEN addedBefore \cup {<<a, name>> : a \in Registered \cup {name}}
                              ELSE addedBefore
    /\ UNCHANGED sessionVars

\* builder.remove(name)
Remove ==
    /\ lastCall.op = "none"
    /\ \E name \in Names :
         /\ items' = ItemsWithout(items, name)
         /\ lastCall' = [op |-> "remove", name |-> name, raised |-> NoError,
                         before |-> items]
         /\ addedBefore' = {p \in addedBefore : p[1] # name /\ p[2] # name}
    /\ UNCHANGED sessionVars

\* builder.build()
Build ==
    /\ lastCall.op = "none"
    /\ lastCall' = [op |-> "build", result |-> build, raised |-> NoError]
    /\ UNCHANGED <<items, addedBefore, sessionVars>>

\* DSLoginInfo(name=, url=, user=, token=) constructed by the caller, or by
\* DSConfig.model_validate for an entry of a configuration file.
NewLoginInfo ==
    /\ lastCall.op = "none"
    /\ \E name \in NameArgs, url \in Urls, user \in Users, token \in Tokens :
         lastCall' = [op |-> "DSLoginInfo", info |-> LoginInfo(name, url, user, token),
                      raised |-> IF LoginInfoRejected(name, url, user, token)
                                 THEN Err("ValidationError", "DSLoginInfo", 0)
                                 ELSE NoError]
    /\ UNCHANGED <<items, addedBefore, sessionVars>>

\* The ended call hands control back to the caller, who forgets its record.
BuilderReturn ==
    /\ lastCall.op # "none"
    /\ lastCall' = [op |-> "none"]
    /\ UNCHANGED <<items, addedBefore, sessionVars>>

BuilderNext == Add \/ Remove \/ Build \/ NewLoginInfo \/ BuilderReturn

BuilderSpec == BuilderInit /\ [][BuilderNext]_vars

\* ------------------------------------- sessions(), one iteration a step
\* The same sessions() with every iteration of its wait loop (api.py
\* 337-350) a step of its own, the servers answering each poll as they
\* like.  The locals of the call are kept in cur: st (started_conns,
\* excluded_conns, the calls made) and elapsed, the last reading of
\* time.time() - start_time in units of start_delay; start_timeout is
\* MaxPolls of them.

\* DSSession(logins) after an open() that connected every login, the R
\* sessions of the connections being in the state sess.
OpenedWith(k, sess) ==
    /\ logins = [i \in 1..k |-> i]
    /\ conns = logins
    /\ connsIsNone = FALSE
    /\ errors = EmptyMap
    /\ errorsIsNone = FALSE
    /\ session = [n \in Names |-> IF n <= k THEN sess ELSE "none"]
    /\ pc = "idle"
    /\ cur = [op |-> "none"]
    /\ lastOp = "other"
    /\ calls = <<>>
    /\ raised = NoError
    /\ returned = FALSE
    /\ rval = EmptyMap
    /\ excluded = <<>>
    /\ items = <<>>
    /\ lastCall = [op |-> "none"]
    /\ addedBefore = {}
    /\ serverModel = "any"
    /\ symbols = NoSymbols
    /\ roundTrip = NoRoundTrip

\* Right after open().
Opened(k) == OpenedWith(k, "none")

SessionsLoopInit == \E k \in 1..LoopServers : Opened(k)

\* The answers of the servers in S to one poll, as behaviours at poll 0.
PollAnswers(S) ==
    {[n \in Names |-> IF n \in S THEN Beh("ok", f[n], 0) ELSE Beh("ok", "never", 0)] :
        f \in [S -> {"started", "raise", "never"}]}

\* The clock after time.sleep(self.start_delay): start_delay at least has
\* passed (readings past the timeout are all alike).
ClockAfterSleep(e) == (e + 1)..(MaxPolls + 1)

\* A wait loop without a timeout.
TimeoutNever(e) == FALSE

\* time.time() - start_time > self.start_timeout
TimeoutPassed(e) == e > MaxPolls

\* Lines 312-336: _init_errors, the start loop, the first poll, start_time.
SessionsBegin ==
    /\ pc = "idle"
    /\ ~connsIsNone
    /\ \E sb \in SessInputs(conns, session, 0) :
         LET st0 == [sess |-> session, calls |-> <<>>, excluded |-> <<>>,
                     started |-> <<>>, raised |-> NoError]
             st1 == StartLoop(conns, 1, sb, st0)
             st2 == PollLoop(SelectNotIn(conns, SeqToSet(st1.excluded)), 1, sb, 0, st1)
         IN /\ cur' = [op |-> "batch", st |-> st2, elapsed |-> 0]
            /\ session' = LiveSessions(st2.sess, conns)
    /\ errors' = init_errors(errors)
    /\ errorsIsNone' = FALSE
    /\ pc' = "waiting"
    /\ UNCHANGED <<builderVars, serverVars, logins, conns, connsIsNone, lastOp,
                   calls, raised, returned, rval, excluded>>

\* Lines 337-350, one iteration that does not time out: sleep, then poll
\* the connections neither started nor excluded.
SessionsPoll ==
    /\ pc = "waiting"
    /\ StillWaiting(conns, cur.st)
    /\ ~TimeoutPassed(cur.elapsed)
    /\ LET rem == SelectNotIn(conns, SeqToSet(cur.st.started) \cup SeqToSet(cur.st.excluded))
       IN \E e \in ClockAfterSleep(cur.elapsed), sb \in PollAnswers(SeqToSet(rem)) :
            LET st == PollLoop(rem, 1, sb, 0, cur.st)
            IN /\ cur' = [cur EXCEPT !.st = st, !.elapsed = e]
               /\ session' = LiveSessions(st.sess, conns)
    /\ UNCHANGED <<builderVars, serverVars, logins, conns, connsIsNone, errors, errorsIsNone,
                   pc, lastOp, calls, raised, returned, rval, excluded>>

\* Lines 338-339: the iteration that finds the timeout passed.
SessionsTimeout ==
    /\ pc = "waiting"
    /\ StillWaiting(conns, cur.st)
    /\ TimeoutPassed(cur.elapsed)
    /\ raised' = Err("DSError", "sessions_timeout", 0)
    /\ returned' = FALSE
    /\ calls' = cur.st.calls
    /\ excluded' = cur.st.excluded
    /\ rval' = EmptyMap
    /\ cur' = [op |-> "batch"]
    /\ pc' = "done"
    /\ UNCHANGED <<builderVars, serverVars, logins, conns, connsIsNone, errors, errorsIsNone,
                   session, lastOp>>

\* Lines 352-361, once the loop condition is false.
SessionsFinish ==
    /\ pc = "waiting"
    /\ ~StillWaiting(conns, cur.st)
    /\ LET left == ConnsAfterSessions(conns, cur.st.excluded)
       IN /\ conns' = left
          /\ session' = LiveSessions(cur.st.sess, left)
          /\ raised' = NoSessions(left)
          /\ returned' = (NoSessions(left) = NoError)
          /\ pc' = IF NoSessions(left) # NoError THEN "done" ELSE "sessions_done"
    /\ calls' = cur.st.calls \o GetSessionCalls(conns, SeqToSet(cur.st.started))
    /\ rval' = SessionsMap(conns, SeqToSet(cur.st.started))
    /\ excluded' = cur.st.excluded
    /\ cur' = [op |-> "batch"]
    /\ UNCHANGED <<builderVars, serverVars, logins, connsIsNone, errors, errorsIsNone, lastOp>>

SessionsLoopNext ==
    \/ SessionsBegin \/ SessionsPoll \/ SessionsTimeout \/ SessionsFinish
    \/ SessionsReturn \/ Return

\* The thread that runs sessions() goes on: every connection call and every
\* sleep returns.
SessionsLoopSpec ==
    /\ SessionsLoopInit /\ [][SessionsLoopNext]_vars
    /\ WF_vars(SessionsPoll \/ SessionsTimeout \/ SessionsFinish)

\* ------------------------------------ a batch operation as one step
\* assign_table, assign_resource, assign_expr and aggregate from the call
\* to its end in one step, sessions() included, the arguments of the call
\* being kept in cur (reached: the call got past sessions(); io: what each
\* server then did about the command), on a DSSession whose R sessions an
\* earlier sessions() call has started.
WithOutcomes(frame, io) ==
    [k \in (DOMAIN frame) \cup {"io"} |-> IF k = "io" THEN io ELSE frame[k]]

CallInit == \E k \in 1..LoopServers : OpenedWith(k, "started")

WholeCall(op, frame, arg, skip, placeholder, keepsRval) ==
    /\ pc = "idle"
    /\ ~connsIsNone
    /\ \E maxIter \in 0..MaxPolls :
         \E sb \in SessInputs(conns, session, maxIter) :
           /\ maxIter = 0 \/ LastAwaited(conns, session, sb, maxIter) # {}
           /\ LET r1 == SessionsResult(conns, connsIsNone, session, sb, maxIter)
              IN /\ conns' = r1.conns
                 /\ session' = LiveSessions(r1.sess, r1.conns)
                 /\ excluded' = r1.excluded
                 /\ IF r1.raised # NoError
                    THEN /\ errors' = Overlay(init_errors(errors), r1.errors)
                         /\ calls' = r1.calls
                         /\ raised' = r1.raised
                         /\ returned' = FALSE
                         /\ rval' = EmptyMap
                         /\ cur' = [frame EXCEPT !.reached = FALSE]
                    ELSE \E io \in OutInputs({n \in SeqToSet(r1.conns) : ~skip[n]}, TRUE) :
                           LET r2 == FanOutResult(r1.conns, op, arg, skip, placeholder, TRUE, io)
                           IN /\ errors' = Overlay(init_errors(errors), r2.errors)
                              /\ calls' = r1.calls \o r2.calls
                              /\ raised' = r2.raised
                              /\ returned' = (r2.raised = NoError)
                              /\ rval' = IF keepsRval THEN r2.rval ELSE EmptyMap
                              /\ cur' = WithOutcomes(frame, io)
    /\ errorsIsNone' = FALSE
    /\ pc' = "done"
    /\ UNCHANGED <<builderVars, serverVars, logins, connsIsNone, lastOp>>

AssignNamedCall(op) ==
    \E symbol \in Symbols, default \in Defaults, overrides \in Overrides(SeqToSet(conns)) :
      LET eff == [n \in Names |-> Resolve(default, overrides, n)]
      IN WholeCall(op, [op |-> op, symbol |-> symbol, default |-> default,
                        overrides |-> overrides, reached |-> TRUE],
                   [n \in Names |-> <<symbol, eff[n]>>],
                   [n \in Names |-> ~Truthy(eff[n])], FALSE, FALSE)

AssignTableCall == AssignNamedCall("assign_table")
AssignResourceCall == AssignNamedCall("assign_resource")

AssignExprCall ==
    \E symbol \in Symbols, expr \in Exprs :
      WholeCall("assign_expr", [op |-> "assign_expr", symbol |-> symbol, expr |-> expr,
                                reached |-> TRUE],
                [n \in Names |-> <<symbol, expr>>], NoSkip, FALSE, FALSE)

AggregateCall ==
    \E expr \in Exprs :
      WholeCall("aggregate", [op |-> "aggregate", expr |-> expr, reached |-> TRUE],
                [n \in Names |-> <<expr>>], NoSkip, TRUE, TRUE)

CallNext ==
    \/ AssignTableCall \/ AssignResourceCall \/ AssignExprCall \/ AggregateCall
    \/ Return

CallSpec == CallInit /\ [][CallNext]_vars

\* --------------------------------------- _do_wait, one pass a step
\* The same four operations with every pass of `while cmd` (api.py 511-524)
\* a step of its own.  The locals of the call are kept in cur: cmd, the
\* pending results by server name, each "running" or "completed" on its
\* server; arg, the arguments issued; issued and fetched, the servers whose
\* result was obtained and fetched.  calls holds the calls of the last pass.

\* The arguments of a call of op: what is issued to each server, and the
\* servers left out.
CallArgs(op, cs) ==
    IF op \in {"assign_table", "assign_resource"}
    THEN {[arg |-> [n \in Names |-> <<symbol, Resolve(default, overrides, n)>>],
           skip |-> [n \in Names |-> ~Truthy(Resolve(default, overrides, n))]] :
            symbol \in Symbols, default \in Defaults, overrides \in Overrides(SeqToSet(cs))}
    ELSE IF op = "assign_expr"
    THEN {[arg |-> [n \in Names |-> <<symbol, expr>>], skip |-> NoSkip] :
            symbol \in Symbols, expr \in Exprs}
    ELSE {[arg |-> [n \in Names |-> <<expr>>], skip |-> NoSkip] : expr \in Exprs}

\* The call up to the first test of `while cmd`: sessions() and the issuing
\* loop.
IssueCommands ==
    /\ pc = "idle"
    /\ ~connsIsNone
    /\ \E op \in WaitingOps, maxIter \in 0..MaxPolls :
         \E a \in CallArgs(op, conns), sb \in SessInputs(conns, session, maxIter) :
           /\ maxIter = 0 \/ LastAwaited(conns, session, sb, maxIter) # {}
           /\ LET r1 == SessionsResult(conns, connsIsNone, session, sb, maxIter)
              IN /\ conns' = r1.conns
                 /\ session' = LiveSessions(r1.sess, r1.conns)
                 /\ excluded' = r1.excluded
                 /\ IF r1.raised # NoError
                    THEN /\ errors' = Overlay(init_errors(errors), r1.errors)
                         /\ calls' = r1.calls
                         /\ raised' = r1.raised
                         /\ rval' = EmptyMap
                         /\ cur' = [op |-> op, arg |-> a.arg, cmd |-> EmptyMap,
                                    issued |-> {}, fetched |-> {}]
                         /\ pc' = "done"
                    ELSE \E io \in OutInputs({n \in SeqToSet(r1.conns) : ~a.skip[n]}, FALSE) :
                           LET st == IssueLoop(r1.conns, 1, op, a.arg, a.skip, op = "aggregate", io,
                                               [calls |-> <<>>, cmd |-> {}, errors |-> EmptyMap,
                                                rval |-> <<>>])
                           IN /\ errors' = Overlay(init_errors(errors), st.errors)
                              /\ calls' = r1.calls \o st.calls
                              /\ raised' = NoError
                              /\ rval' = EmptyMap
                              /\ cur' = [op |-> op, arg |-> a.arg,
                                         cmd |-> [c \in st.cmd |-> "running"],
                                         issued |-> st.cmd, fetched |-> {}]
                              /\ pc' = "result_wait"
    /\ errorsIsNone' = FALSE
    /\ returned' = FALSE
    /\ UNCHANGED <<builderVars, serverVars, logins, connsIsNone, lastOp>>

\* A server that never finishes a command.
ResultNeverCompletes(c) == FALSE

\* Server c finishes its command: from now on is_completed() answers True.
ResultCompletes(c) ==
    /\ pc = "result_wait"
    /\ c \in DOMAIN cur.cmd
    /\ cur.cmd[c] = "running"
    /\ cur' = [cur EXCEPT !.cmd[c] = "completed"]
    /\ UNCHANGED <<builderVars, serverVars, logins, conns, connsIsNone, errors, errorsIsNone,
                   session, pc, lastOp, calls, raised, returned, rval, excluded>>

\* One pass of `while cmd`, then the sleep: every completed result is
\* fetched (fetch returns or raises) and leaves cmd.
ResultPass ==
    /\ pc = "result_wait"
    /\ DOMAIN cur.cmd # {}
    /\ \E f \in [{c \in DOMAIN cur.cmd : cur.cmd[c] = "completed"} -> {"ok", "raise"}] :
         LET io == [n \in Names |->
                      IF n \in DOMAIN f THEN Out("ok", 1, f[n]) ELSE Out("ok", 2, "ok")]
             st == WaitPass(conns, 1, cur.op, cur.arg, io, 1,
                            [calls |-> <<>>, cmd |-> DOMAIN cur.cmd, errors |-> errors,
                             rval |-> rval])
         IN /\ calls' = st.calls
            /\ errors' = st.errors
            /\ rval' = st.rval
            /\ cur' = [cur EXCEPT !.cmd = [c \in st.cmd |-> cur.cmd[c]],
                                  !.fetched = @ \cup (DOMAIN cur.cmd \ st.cmd)]
    /\ UNCHANGED <<builderVars, serverVars, logins, conns, connsIsNone, errorsIsNone,
                   session, pc, lastOp, raised, returned, excluded>>

\* cmd is empty: _do_wait returns, then _check_errors and the return.
FinishCall ==
    /\ pc = "result_wait"
    /\ DOMAIN cur.cmd = {}
    /\ raised' = check_errors(errors)
    /\ returned' = (check_errors(errors) = NoError)
    /\ rval' = IF cur.op = "aggregate" THEN rval ELSE EmptyMap
    /\ pc' = "done"
    /\ UNCHANGED <<builderVars, serverVars, logins, conns, connsIsNone, errors, errorsIsNone,
                   session, cur, lastOp, calls, excluded>>

ResultWaitNext ==
    \/ IssueCommands
    \/ \E c \in Names : ResultCompletes(c)
    \/ ResultPass \/ FinishCall
    \/ Return

\* The thread that runs the call goes on, and every issued result is
\* completed by its server at some time.
ResultWaitSpec ==
    /\ CallInit /\ [][ResultWaitNext]_vars
    /\ WF_vars(ResultPass \/ FinishCall)
    /\ \A c \in Names : WF_vars(ResultCompletes(c))

\* ------------------------------------------------- listing operations
\* tables, resources, profiles, packages, methods and workspaces (api.py
\* 188-257): one synchronous call per live connection, in order, collected
\* into a map by server name, without try.
ListingOps == {"tables", "resources", "profiles", "packages", "methods", "workspaces"}

\* The connection method each of them calls.
ListMethod(op) ==
    CASE op = "tables" -> "list_tables"
      [] op = "resources" -> "list_resources"
      [] op = "profiles" -> "list_profiles"
      [] op = "packages" -> "list_packages"
      [] op = "methods" -> "list_methods"
      [] op = "workspaces" -> "list_workspaces"

MethodTypes == {"aggregate", "assign"}

\* What server c returns for the listing.
ListedValue(c, method, arg) == <<"list", c, method, arg>>

\* The exception a server raises for a listing call.
ListingError(c) == Err("Exception", "listing", c)

\* The same loop with the handler of ls(): the exception goes to the error
\* map and the loop goes on.
RECURSIVE ListLoopCaptured(_, _, _, _, _, _)
ListLoopCaptured(cs, i, method, arg, out, st) ==
    IF i > Len(cs) THEN st
    ELSE LET c == cs[i]
         IN ListLoopCaptured(cs, i + 1, method, arg, out,
              IF out[c] = "ok"
              THEN [st EXCEPT !.calls = Append(@, Call(c, method, arg, "ok")),
                              !.rval = MapSet(@, c, ListedValue(c, method, arg))]
              ELSE [st EXCEPT !.calls = Append(@, Call(c, method, arg, "Exception")),
                              !.errors = MapSet(@, c, ListingError(c))])

ListResultCaptured(cs, isNone, errs, method, arg, out) ==
    ListLoopCaptured(IF isNone THEN <<>> ELSE cs, 1, method, arg, out,
                     [calls |-> <<>>, rval |-> EmptyMap, errors |-> errs, raised |-> NoError])

\* for conn in self.conns: rval[conn.name] = conn.list_...(), from
\* connection i on; out: the outcome of each server's call.  There is no
\* try: the exception of a call leaves the loop and the method.
RECURSIVE ListLoop(_, _, _, _, _, _)
ListLoop(cs, i, method, arg, out, st) ==
    IF i > Len(cs) THEN st
    ELSE LET c == cs[i]
         IN IF out[c] = "ok"
            THEN ListLoop(cs, i + 1, method, arg, out,
                   [st EXCEPT !.calls = Append(@, Call(c, method, arg, "ok")),
                              !.rval = MapSet(@, c, ListedValue(c, method, arg))])
            ELSE [st EXCEPT !.calls = Append(@, Call(c, method, arg, "Exception")),
                            !.raised = ListingError(c)]

\* A listing operation on a session whose conns is cs (None when isNone)
\* and whose error map is errs: self.errors is not written.
ListResult(cs, isNone, errs, method, arg, out) ==
    IF isNone
    THEN [calls |-> <<>>, rval |-> EmptyMap, errors |-> errs, raised |-> TypeErrorNone]
    ELSE ListLoop(cs, 1, method, arg, out,
                  [calls |-> <<>>, rval |-> EmptyMap, errors |-> errs, raised |-> NoError])

\* The listing operation op with the argument tuple arg of its connection
\* method; the servers after one that raises are not asked.
Listing(op, arg) ==
    /\ pc = "idle"
    /\ \E out \in OutcomesOver(IF connsIsNone THEN {} ELSE SeqToSet(conns), {"ok", "Exception"}) :
         /\ NothingAfter(conns, [n \in Names |-> out[n] # "ok"], [n \in Names |-> out[n] = "ok"])
         /\ LET r == ListResult(conns, connsIsNone, errors, ListMethod(op), arg, out)
            IN /\ calls' = r.calls
               /\ errors' = r.errors
               /\ raised' = r.raised
               /\ returned' = (r.raised = NoError)
               /\ rval' = r.rval
    /\ cur' = [op |-> op]
    /\ pc' = "done"
    /\ excluded' = <<>>
    /\ UNCHANGED <<builderVars, serverVars, logins, conns, connsIsNone, errorsIsNone,
                   session, lastOp>>

Tables == Listing("tables", <<>>)
Resources == Listing("resources", <<>>)
Profiles == Listing("profiles", <<>>)
Packages == Listing("packages", <<>>)
Methods == \E type \in MethodTypes : Listing("methods", <<type>>)
Workspaces == Listing("workspaces", <<>>)

\* The listing operations on a DSSession that is opened and closed.
ListingNext ==
    \/ Open \/ Close
    \/ Tables \/ Resources \/ Profiles \/ Packages \/ Methods \/ Workspaces
    \/ Return

ListingSpec == Init /\ [][ListingNext]_vars

\* ------------------------------------------------------- DSConfig.load
\* A configuration file as load() finds it: absent, present but not
\* readable, readable but not YAML, YAML that is not a DSConfig, or a
\* DSConfig with its servers (an empty file is a DSConfig without servers).
FileKinds == {"missing", "unreadable", "malformed", "invalid", "ok"}

ConfigNames == {1, 2}
ConfigUrls == {"https://one", "https://two"}

\* An entry of `servers`: a DSLoginInfo, of which the name and the rest
\* (here the url) matter to the merge.
ServerEntry(name, url) == [name |-> name, url |-> url]

\* The `servers` of a file: as many entries as there are names at most, so
\* that a file can define every name, and can define a name twice.
ServerLists ==
    UNION {[1..k -> {ServerEntry(n, u) : n \in ConfigNames, u \in ConfigUrls}]
             : k \in 0..Cardinality(ConfigNames)}

ConfigFile(kind, servers) == [kind |-> kind, servers |-> servers]

ConfigFileStates ==
    {ConfigFile(k, <<>>) : k \in FileKinds \ {"ok"}}
        \cup {ConfigFile("ok", l) : l \in ServerLists}

\* cls.load_from_file(file): the servers of the file, or the exception of
\* open(), yaml.safe_load() or model_validate().
load_from_file(f) ==
    IF f.kind \in {"missing", "unreadable"}
    THEN [raised |-> Err("OSError", "open", 0), servers |-> <<>>]
    ELSE IF f.kind = "malformed"
    THEN [raised |-> Err("YAMLError", "safe_load", 0), servers |-> <<>>]
    ELSE IF f.kind = "invalid"
    THEN [raised |-> Err("ValidationError", "model_validate", 0), servers |-> <<>>]
    ELSE [raised |-> NoError, servers |-> f.servers]

\* A dict that keeps the value it first had for a key.
DictKeep(d, e) ==
    IF \E i \in 1..Len(d) : d[i].name = e.name THEN d ELSE Append(d, e)

\* existing_servers[server.name] = server on a dict kept as the list of its
\* values in insertion order: a known key keeps its place and takes the
\* new value, a new key goes to the end.
DictPut(d, e) ==
    IF \E i \in 1..Len(d) : d[i].name = e.name
    THEN [i \in 1..Len(d) |-> IF d[i].name = e.name THEN e ELSE d[i]]
    ELSE Append(d, e)

RECURSIVE DictPutAll(_, _)
DictPutAll(d, l) ==
    IF l = <<>> THEN d ELSE DictPutAll(DictPut(d, Head(l)), Tail(l))

\* The merge of load(): {x.name: x for x in merged_config.servers}, then
\* every server of the new file put in, then list(values()).
MergeServers(existing, new) == DictPutAll(DictPutAll(<<>>, existing), new)

\* A handler that lets the exception through.
CatchesNothing(e) == FALSE

\* `except Exception`: every exception load_from_file can raise is one.
Catches(e) == e.kind \in {"OSError", "YAMLError", "ValidationError"}

\* The loop of load() from file i on; m is merged_config (isNone: still
\* None), raised the exception that left the loop.
RECURSIVE LoadLoop(_, _, _)
LoadLoop(fs, i, m) ==
    IF i > Len(fs) THEN m
    ELSE LET f == fs[i]
         IN IF f.kind = "missing" THEN LoadLoop(fs, i + 1, m)
            ELSE IF f.kind = "unreadable" THEN LoadLoop(fs, i + 1, m)
            ELSE LET r == load_from_file(f)
                 IN IF r.raised # NoError
                    THEN IF Catches(r.raised) THEN LoadLoop(fs, i + 1, m)
                         ELSE [m EXCEPT !.raised = r.raised]
                    ELSE IF m.isNone
                    THEN LoadLoop(fs, i + 1, [m EXCEPT !.isNone = FALSE,
                                                       !.servers = r.servers])
                    ELSE LoadLoop(fs, i + 1,
                           [m EXCEPT !.servers = MergeServers(@, r.servers)])

\* DSConfig.load() over the configuration files fs: the servers of the
\* returned DSConfig, or the exception raised.
load(fs) ==
    LET m == LoadLoop(fs, 1, [isNone |-> TRUE, servers |-> <<>>, raised |-> NoError])
    IN [servers |-> IF m.raised # NoError \/ m.isNone THEN <<>> ELSE m.servers,
        raised |-> m.raised]

\* DSConfig.load(), the configuration files being in any state.
Load ==
    /\ lastCall.op = "none"
    /\ \E fs \in [1..MaxConfigFiles -> ConfigFileStates] :
         LET r == load(fs)
         IN lastCall' = [op |-> "load", files |-> fs, result |-> r.servers,
                         raised |-> r.raised]
    /\ UNCHANGED <<items, addedBefore, sessionVars>>

ConfigNext == Load \/ BuilderReturn

ConfigSpec == BuilderInit /\ [][ConfigNext]_vars

\* --------------------------------------- DSLoginBuilder(names): seeding
\* The `names` argument of the constructor: None, or a list of names (what
\* is read of it is membership).
NamesArg(isNone, list) == [isNone |-> isNone, list |-> list]
NamesArgs == {NamesArg(TRUE, {})} \cup {NamesArg(FALSE, S) : S \in SUBSET ConfigNames}

\* items = [x for x in config.servers if x.name in names]
SeedItems(servers, names) == SelectSeq(servers, LAMBDA x : x.name \in names.list)

\* DSLoginBuilder.__init__(names), the configuration files being fs: the
\* registry it leaves.  Nothing is loaded without names; the matching
\* entries of the loaded configuration are taken as they are, in order.
NewBuilder(names, fs) ==
    IF names.isNone \/ names.list = {} THEN <<>>
    ELSE LET config == load(fs)
         IN IF config.servers # <<>> THEN SeedItems(config.servers, names) ELSE <<>>

\* The order of a seeded registry, as the history of adds would give it.
SeededBefore(its) ==
    {<<its[p[1]].name, its[p[2]].name>> :
        p \in {q \in (1..Len(its)) \X (1..Len(its)) : q[1] <= q[2]}}

\* DSLoginBuilder(names) has just returned, over any configuration files,
\* and no session is made from it yet.
SeededInit ==
    /\ \E names \in NamesArgs, fs \in [1..MaxConfigFiles -> ConfigFileStates] :
         /\ items = NewBuilder(names, fs)
         /\ addedBefore = SeededBefore(items)
         /\ lastCall = [op |-> "DSLoginBuilder", names |-> names, files |-> fs,
                        raised |-> NoError]
    /\ logins = <<>>
    /\ conns = <<>>
    /\ connsIsNone = TRUE
    /\ errors = EmptyMap
    /\ errorsIsNone = TRUE
    /\ session = [n \in Names |-> "none"]
    /\ pc = "idle"
    /\ cur = [op |-> "none"]
    /\ lastOp = "other"
    /\ calls = <<>>
    /\ raised = NoError
    /\ returned = FALSE
    /\ rval = EmptyMap
    /\ excluded = <<>>
    /\ serverModel = "any"
    /\ symbols = NoSymbols
    /\ roundTrip = NoRoundTrip

SeededNext == Add \/ Remove \/ Build \/ BuilderReturn

SeededBuilderSpec == SeededInit /\ [][SeededNext]_vars

\* ======================================================================
\* Properties.  An operation's record (calls, raised, returned, rval) is
\* read in the state where it has just ended, pc = "done".
\* ======================================================================
Ended(op) == pc = "done" /\ cur.op = op

CallIdx == 1..Len(calls)

\* The servers on which method m was called with outcome out.
Called(m, out) == {calls[i].conn : i \in {j \in CallIdx : calls[j].op = m /\ calls[j].out = out}}

\* How many times method m was called on server c.
CallCount(c, m) == Cardinality({i \in CallIdx : calls[i].conn = c /\ calls[i].op = m})

\* No call of the ended operation raised an exception other than a DSError.
OnlyDSErrors == \A i \in CallIdx : calls[i].out # "Exception"

\* The servers whose connection creation failed / succeeded in the ended open().
CreationFailed == Called("load_class", "Exception") \cup Called("new_connection", "Exception")
Created == Called("new_connection", "ok")

\* The error raised by the failed creation of server n's connection.
CreationErrorSeen(n) == Err("Exception", "creation", n)

FailFastOpenFailed == Ended("open") /\ ~cur.failSafe /\ CreationFailed # {}

\* C1: open(failSafe=False): when creating the connection of login K fails,
\* disconnect() has been called on every connection created before it, no
\* connection is created for the logins after K, and get_connection_names()
\* is empty afterwards.
C1_FailFastOpenLeavesNothingOpen ==
    FailFastOpenFailed =>
        /\ \A c \in Created : CallCount(c, "disconnect") >= 1
        /\ \A k \in CreationFailed, i \in 1..Len(logins), j \in 1..Len(logins) :
             (logins[i] = k /\ j > i) => CallCount(logins[j], "load_class") = 0
        /\ get_connection_names = <<>>

\* C1, as far as it holds: the same when no disconnect() raises anything
\* but a DSError.
C1_HoldsWhenOnlyDSErrors ==
    (FailFastOpenFailed /\ Called("disconnect", "Exception") = {}) =>
        /\ \A c \in Created : CallCount(c, "disconnect") = 1
        /\ \A k \in CreationFailed, i \in 1..Len(logins), j \in 1..Len(logins) :
             (logins[i] = k /\ j > i) => CallCount(logins[j], "load_class") = 0
        /\ get_connection_names = <<>>

\* C2: open(failSafe=False): the error that reaches the caller is the error
\* that made the creation of connection K fail, whatever happens while the
\* connections created before it are closed.
C2_FailFastOpenRaisesTriggeringError ==
    FailFastOpenFailed => \E k \in CreationFailed : raised = CreationErrorSeen(k)

\* C3: open(failSafe=True) does not raise for a per-connection failure; the
\* live connections are exactly the logins whose creation succeeded, in login
\* order, and get_errors() has exactly one entry per failed server, holding
\* that server's error.
C3_FailSafeOpenKeepsTheRest ==
    (Ended("open") /\ cur.failSafe) =>
        /\ raised = NoError /\ returned
        /\ ~connsIsNone
        /\ get_connection_names = SelectNotIn(logins, Names \ Created)
        /\ Created \cup CreationFailed = SeqToSet(logins)
        /\ DOMAIN get_errors = CreationFailed
        /\ \A n \in CreationFailed : get_errors[n] = CreationErrorSeen(n)

\* C3 witness: a fail-safe open of three logins where the second fails and
\* the other two are created.
C3_Witness ==
    /\ Ended("open") /\ cur.failSafe
    /\ Len(logins) = 3
    /\ CreationFailed = {logins[2]}
    /\ conns = <<logins[1], logins[3]>>

\* C4: close() twice in a row: the second call does not raise and leaves an
\* empty connection set.
C4_CloseTwiceDoesNotRaise ==
    (Ended("close") /\ lastOp = "close") =>
        (raised = NoError /\ get_connection_names = <<>>)

FirstCall(c, m) ==
    IF CallCount(c, m) = 0 THEN 0
    ELSE CHOOSE i \in CallIdx :
           /\ calls[i].conn = c /\ calls[i].op = m
           /\ \A j \in CallIdx : (calls[j].conn = c /\ calls[j].op = m) => i <= j

\* C6: close(save): disconnect() is invoked exactly once on every connection
\* that was open when close started and, when save is given, after
\* save_workspace("{name}:{save}") on that connection; also when a
\* save_workspace or disconnect call fails with a DSError.
C6_CloseDisconnectsEveryConnection ==
    (Ended("close") /\ OnlyDSErrors) =>
        \A i \in 1..Len(cur.conns0) :
           LET c == cur.conns0[i]
           IN /\ CallCount(c, "disconnect") = 1
              /\ Truthy(cur.save) =>
                   /\ CallCount(c, "save_workspace") = 1
                   /\ calls[FirstCall(c, "save_workspace")].arg = WorkspaceName(c, cur.save)
                   /\ FirstCall(c, "save_workspace") < FirstCall(c, "disconnect")

\* C6, as far as it holds: the same for the connections whose save_workspace
\* did not raise.
C6_HoldsWhenSaveSucceeds ==
    (Ended("close") /\ OnlyDSErrors) =>
        \A i \in 1..Len(cur.conns0) :
           LET c == cur.conns0[i]
           IN /\ CallCount(c, "disconnect") = IF c \in Called("save_workspace", "DSError") THEN 0 ELSE 1
              /\ Truthy(cur.save) =>
                   /\ CallCount(c, "save_workspace") = 1
                   /\ calls[FirstCall(c, "save_workspace")].arg = WorkspaceName(c, cur.save)
                   /\ (c \notin Called("save_workspace", "DSError")
                         => FirstCall(c, "save_workspace") < FirstCall(c, "disconnect"))

\* The servers that raised in the ended aggregate(): when the command was
\* issued, or when its result was fetched; and those whose value was fetched.
AggFailed == Called("aggregate", "Exception") \cup Called("fetch", "Exception")
AggSucceeded == Called("fetch", "ok")

\* The value fetched from server c in the ended aggregate().
AggValueSeen(c) == FetchedValue(c, "aggregate", calls[FirstCall(c, "aggregate")].arg)

\* C7: aggregate(expr) when some servers raise (at issue or at fetch) and the
\* others succeed: has_errors() is true and the keys of get_errors() are
\* exactly the names of the failing servers.
C7_AggregateErrorsAreTheFailingServers ==
    Ended("aggregate") =>
        /\ DOMAIN get_errors = AggFailed
        /\ AggFailed \cap AggSucceeded = {}
        /\ AggFailed \cup AggSucceeded = SeqToSet(conns)
        /\ (AggFailed # {} => has_errors)

\* C7 witness: an aggregate over three servers where exactly one raises, at
\* fetch, and the two others succeed.
C7_Witness ==
    /\ Ended("aggregate")
    /\ Len(conns) = 3
    /\ Cardinality(Called("fetch", "Exception")) = 1
    /\ Cardinality(AggSucceeded) = 2

PartialFailure == Ended("aggregate") /\ AggFailed # {} /\ AggSucceeded # {}

\* C8 (as claimed): aggregate(expr) when some servers fail and others
\* succeed: the caller receives a result map with one entry per succeeding
\* server, holding that server's value.
C8_PartialResultsReachTheCaller ==
    PartialFailure =>
        /\ returned
        /\ DOMAIN rval = AggSucceeded

\* C8 (amended): aggregate(expr) when some servers fail and others succeed:
\* the values of the succeeding servers are fetched into a result map with
\* one entry per succeeding server, but the call raises the aggregate
\* DSError: the map is not returned, the caller is left with the error map.
C8_PartialResultsAreFetchedNotReturned ==
    PartialFailure =>
        /\ ~returned
        /\ raised = AggregateError
        /\ DOMAIN rval = AggSucceeded
        /\ \A c \in AggSucceeded : rval[c] = AggValueSeen(c)

\* C8 witness: one of three servers raises when the command is issued, the
\* two others are fetched.
C8_Witness ==
    /\ PartialFailure
    /\ Len(conns) = 3
    /\ Cardinality(Called("aggregate", "Exception")) = 1
    /\ Cardinality(AggSucceeded) = 2

\* C9: aggregate(expr) when every live server succeeds: the returned map has
\* exactly one entry per live connection name, holding the value fetched from
\* that server, and has_errors() is false afterwards.
C9_AggregateAllSucceed ==
    (Ended("aggregate") /\ AggFailed = {}) =>
        /\ returned /\ raised = NoError
        /\ DOMAIN rval = SeqToSet(get_connection_names)
        /\ \A c \in DOMAIN rval : rval[c] = AggValueSeen(c) /\ CallCount(c, "fetch") = 1
        /\ ~has_errors

\* C9 witness: an aggregate over three servers that all succeed, not all in
\* the same pass of the wait loop.
C9_Witness ==
    /\ Ended("aggregate") /\ AggFailed = {}
    /\ Len(conns) = 3
    /\ Called("is_completed", "False") # {}

BatchOps == {"ls", "rm", "assign_table", "assign_resource", "assign_expr", "aggregate"}

\* A batch operation has ended: in its own loop, or in its sessions() call.
BatchEnded == pc = "done" /\ cur.op \in BatchOps \cup {"batch"}

\* C10: every batch operation (ls, rm, assign_table, assign_resource,
\* assign_expr, aggregate) returns normally only if the error map is empty at
\* its end, and raises the aggregate DSError whenever the error map is not
\* empty at its end, even if some servers succeeded.
C10_FailureGate ==
    BatchEnded =>
        /\ returned => DOMAIN errors = {}
        /\ DOMAIN errors # {} => (raised = AggregateError /\ ~returned)

\* C10 witness: a batch operation without result map (rm) over three servers
\* of which one raised and two succeeded.
C10_Witness ==
    /\ Ended("rm")
    /\ Len(conns) = 3
    /\ Cardinality(DOMAIN errors) = 1
    /\ Cardinality(Called("rm_symbol", "ok")) = 2

\* ---------------------------------------------------------------- sessions
\* A step that is a whole sessions() call, and the ways it ends.
SessionsStep == pc = "idle" /\ cur'.op = "batch"
SessionsEnded == pc = "sessions_done" \/ (pc = "done" /\ cur.op = "batch")
TimeoutError == Err("DSError", "sessions_timeout", 0)
NoSessionsError == Err("DSError", "no_sessions", 0)

\* C11: a connection that a sessions() call excluded is, once that call has
\* run to its end (returned, or raised for want of any session), no longer
\* listed by get_connection_names(); the batch operation that made the call
\* and every later one call methods on the listed connections only, and
\* nothing but open() lists a connection that was not listed before.
C11_ExcludedConnectionsStayOut ==
    [][ /\ (SessionsStep /\ raised' \notin {TimeoutError, TypeErrorNone}) =>
              SeqToSet(excluded') \cap SeqToSet(get_connection_names') = {}
        /\ (SessionsStep \/ pc = "fanout") =>
              \A i \in 1..Len(calls') : calls'[i].conn \in SeqToSet(get_connection_names)
        /\ pc = "fanout" =>
              /\ get_connection_names' = get_connection_names
              /\ \A i \in 1..Len(calls') : calls'[i].conn \notin SeqToSet(excluded)
        /\ cur'.op # "open" =>
              SeqToSet(get_connection_names') \subseteq SeqToSet(get_connection_names)
      ]_vars

\* C11 witness: an aggregate has ended whose sessions() call excluded one of
\* three connections; the command went to the two others.
C11_Witness ==
    /\ Ended("aggregate")
    /\ Len(excluded) = 1 /\ Len(conns) = 2
    /\ Called("aggregate", "ok") = SeqToSet(conns)

\* C12: when every live connection is excluded by sessions(), or none was
\* live to begin with (as after a fail-safe open() where every server
\* failed), the operation raises the no-sessions DSError, returns nothing,
\* and leaves an empty connection list: the same happens to the next one.
C12_NoConnectionLeftIsFatal ==
    [][ (SessionsStep /\ ~connsIsNone /\ SeqToSet(conns) \subseteq SeqToSet(excluded')) =>
          /\ raised' = NoSessionsError
          /\ pc' = "done" /\ ~returned' /\ rval' = EmptyMap
          /\ conns' = <<>> /\ ~connsIsNone'
      ]_vars

\* C12 witness: a batch operation has raised the no-sessions error although
\* its sessions() call excluded nothing: no connection was live before it.
C12_Witness ==
    /\ pc = "done" /\ cur.op = "batch"
    /\ raised = NoSessionsError
    /\ excluded = <<>> /\ calls = <<>>
    /\ Len(logins) = 3 /\ DOMAIN errors = {}

\* The live connections that sessions() has not excluded and whose session
\* has not been reported started.
Unstarted == {c \in SeqToSet(conns) \ SeqToSet(excluded) : session[c] # "started"}

\* C13: sessions() returns normally only when every live connection has
\* answered True to is_session_started() in that call; it ends with such a
\* connection still not started exactly when it raises the timeout DSError,
\* and then nothing is returned.
C13_NoReturnBeforeAllStarted ==
    /\ pc = "sessions_done" =>
          /\ Unstarted = {} /\ raised = NoError
          /\ SeqToSet(conns) \subseteq Called("is_session_started", "True")
    /\ (pc = "done" /\ cur.op = "batch" /\ ~connsIsNone) =>
          /\ Unstarted # {} <=> raised = TimeoutError
          /\ raised = TimeoutError => (~returned /\ rval = EmptyMap)

\* C13 witness: the timeout was raised while one connection had started,
\* one had been excluded and one was still not started.
C13_Witness ==
    /\ pc = "done" /\ cur.op = "batch" /\ raised = TimeoutError
    /\ Len(conns) = 3 /\ Len(excluded) = 1
    /\ Cardinality(Unstarted) = 1
    /\ Cardinality(Called("is_session_started", "True")) = 1

\* ---------------------------------------------------------- has_connections
\* C20: has_connections() answers True when a connection is open and False
\* when none is, in every state of the orchestrator: before open(), after
\* open() whichever way it ended, and after close().
C20_HasConnectionsAnswersEverywhere ==
    pc \in {"idle", "done"} =>
        has_connections = IF get_connection_names # <<>> THEN "True" ELSE "False"

\* C20, as far as it holds: the same while self.conns is a list.
C20_HoldsWhileConnsIsAList ==
    (pc \in {"idle", "done"} /\ ~connsIsNone) =>
        has_connections = IF get_connection_names # <<>> THEN "True" ELSE "False"

\* ------------------------------------------------------- DSLoginBuilder
\* The names of a registry, in its order.
NamesOf(its) == [i \in 1..Len(its) |-> its[i].name]

HasName(its, name) == name \in SeqToSet(NamesOf(its))

AddEnded == lastCall.op = "add"
RemoveEnded == lastCall.op = "remove"

\* The registry its without its k-th entry.
WithoutEntry(its, k) == SubSeq(its, 1, k - 1) \o SubSeq(its, k + 1, Len(its))

\* C14: add() with a name that is already in the registry raises ValueError
\* and leaves the registry as it was, entries and order, whatever adds and
\* removes came before.
C14_DuplicateNameIsRejected ==
    (AddEnded /\ HasName(lastCall.before, lastCall.info.name)) =>
        /\ lastCall.raised.kind = "ValueError"
        /\ items = lastCall.before

\* C14 witness: add() of the name of the second of three entries, with a url
\* and a user, has raised the uniqueness error.
C14_Witness ==
    /\ AddEnded
    /\ Len(lastCall.before) = 3
    /\ lastCall.info.name = lastCall.before[2].name
    /\ lastCall.info.url # NoneVal /\ lastCall.info.user # NoneVal
    /\ lastCall.raised = Err("ValueError", "name_not_unique", lastCall.info.name)

\* C15: add() raises ValueError and adds nothing when user and token are
\* both None, and when name or url is None; with a user, a token or both,
\* a name that is new and a url, it returns and has appended exactly the
\* entry made of its arguments.
C15_AddWantsACredential ==
    AddEnded =>
        LET i == lastCall.info
            lacking == (i.user = NoneVal /\ i.token = NoneVal)
                       \/ i.name = NoName \/ i.url = NoneVal
        IN /\ lacking => (lastCall.raised.kind = "ValueError" /\ items = lastCall.before)
           /\ (~lacking /\ ~HasName(lastCall.before, i.name)) =>
                 /\ lastCall.raised = NoError
                 /\ items = Append(lastCall.before, i)

\* C15 witness: an entry with a token and no user was appended to a
\* registry that held an entry with a user and no token.
C15_Witness ==
    /\ AddEnded /\ lastCall.raised = NoError
    /\ lastCall.info.user = NoneVal /\ lastCall.info.token # NoneVal
    /\ Len(items) = 2
    /\ items[1].user # NoneVal /\ items[1].token = NoneVal

\* C16: DSLoginInfo(...) with neither user nor token is rejected with a
\* validation error, whoever constructs it.
C16_LoginInfoWantsACredential ==
    (lastCall.op = "DSLoginInfo"
     /\ lastCall.info.user = NoneVal /\ lastCall.info.token = NoneVal) =>
        lastCall.raised.kind = "ValidationError"

\* C17: remove(name) never raises; with a name that is not registered the
\* registry stays as it was, with a registered name exactly that entry
\* goes and the others keep their order.
C17_RemoveTakesOneEntryOrNone ==
    RemoveEnded =>
        /\ lastCall.raised = NoError
        /\ ~HasName(lastCall.before, lastCall.name) => items = lastCall.before
        /\ HasName(lastCall.before, lastCall.name) =>
              \E k \in 1..Len(lastCall.before) :
                  /\ lastCall.before[k].name = lastCall.name
                  /\ items = WithoutEntry(lastCall.before, k)

\* C17 witness: the second of three entries was removed.
C17_Witness ==
    /\ RemoveEnded
    /\ Len(lastCall.before) = 3 /\ lastCall.before[2].name = lastCall.name
    /\ items = <<lastCall.before[1], lastCall.before[3]>>

\* C18: build() returns the registered names, each once, in the order of
\* their add() calls: the names added, in the order added, minus the
\* removed ones.
C18_BuildKeepsInsertionOrder ==
    lastCall.op = "build" =>
        LET ns == NamesOf(lastCall.result)
        IN /\ SeqToSet(ns) = Registered
           /\ \A i, j \in 1..Len(ns) : i < j => (ns[i] # ns[j] /\ <<ns[i], ns[j]>> \in addedBefore)

\* C18 witness: build() returned <<2, 3, 1>>: 1 was added before 2 and 3,
\* removed, and added again.
C18_Witness ==
    /\ lastCall.op = "build"
    /\ NamesOf(lastCall.result) = <<2, 3, 1>>

\* The symbols that ls() returned for server c.
Listed(c) == rval[c][3]

\* C19: over servers that hold a symbol set, an ls() that returns right after
\* assign_table(symbol, table) lists symbol for every server whose assignment
\* succeeded, and an ls() that returns right after an rm(symbol) that ended
\* without error lists symbol for no server.
C19_RoundTripThroughLs ==
    (Ended("ls") /\ returned) =>
        /\ roundTrip.op = "assign_table" =>
              \A p \in roundTrip.did : p[1] \in DOMAIN rval /\ p[2] \in Listed(p[1])
        /\ roundTrip.op = "rm" =>
              /\ {p[1] : p \in roundTrip.did} = DOMAIN rval
              /\ \A p \in roundTrip.did : \A c \in DOMAIN rval : p[2] \notin Listed(c)

\* ls() returned after an assign_table that succeeded on one server and not
\* on another: the first lists the symbol.
C19_Witness ==
    /\ Ended("ls") /\ returned
    /\ roundTrip.op = "assign_table"
    /\ roundTrip.did # {}
    /\ \E c \in DOMAIN rval : c \notin {p[1] : p \in roundTrip.did}

\* ---------------------------------------------------------- DSConfig.load
LoadEnded == lastCall.op = "load"

\* The files that load() read as a DSConfig.
ValidFiles(fs) == {i \in 1..Len(fs) : fs[i].kind = "ok"}

EntriesOf(l) == {l[i] : i \in 1..Len(l)}

\* The files among them that define server name n.
Defining(fs, n) == {i \in ValidFiles(fs) : \E e \in EntriesOf(fs[i].servers) : e.name = n}

LastOf(S) == CHOOSE i \in S : \A j \in S : j <= i

\* The definition of n that file f gives: the last one, if it has several.
DefinitionIn(f, n) ==
    LET idx == {i \in 1..Len(f.servers) : f.servers[i].name = n}
    IN f.servers[LastOf(idx)]

\* C21: in the result of load(), the names are those defined in some valid
\* file, and every entry under a name is a definition of that name from the
\* last valid file that defines it; once a second valid file has been merged
\* there is one entry per name, the last definition of that file.
C21_LastFileDefiningAServerWins ==
    LoadEnded =>
        LET fs == lastCall.files
            res == lastCall.result
        IN /\ {e.name : e \in EntriesOf(res)} = {n \in ConfigNames : Defining(fs, n) # {}}
           /\ \A e \in EntriesOf(res) :
                 e \in EntriesOf(fs[LastOf(Defining(fs, e.name))].servers)
           /\ Cardinality(ValidFiles(fs)) > 1 =>
                 /\ \A i, j \in 1..Len(res) : res[i].name = res[j].name => i = j
                 /\ \A e \in EntriesOf(res) :
                       e = DefinitionIn(fs[LastOf(Defining(fs, e.name))], e.name)

\* load() merged two valid files: one name is defined in both, differently,
\* the other in the first file only.
C21_Witness ==
    /\ LoadEnded
    /\ ValidFiles(lastCall.files) = {1, 2}
    /\ Defining(lastCall.files, 1) = {1, 2}
    /\ Defining(lastCall.files, 2) = {1}
    /\ DefinitionIn(lastCall.files[1], 1) # DefinitionIn(lastCall.files[2], 1)
    /\ Len(lastCall.result) = 2

\* C22: load() never raises; the files that are missing, unreadable or
\* invalid contribute nothing, the result being that of the valid files
\* alone, and a load() without a valid file gives zero servers.
C22_LoadNeverRaises ==
    LoadEnded =>
        LET fs == lastCall.files
            valid == SelectSeq(fs, LAMBDA f : f.kind = "ok")
        IN /\ lastCall.raised = NoError
           /\ lastCall.result = load(valid).servers
           /\ ValidFiles(fs) = {} => lastCall.result = <<>>

\* load() returned the servers of the second file, the first being invalid.
C22_Witness ==
    /\ LoadEnded
    /\ lastCall.files[1].kind \in {"malformed", "invalid"}
    /\ lastCall.files[2].kind = "ok"
    /\ lastCall.result # <<>>
    /\ lastCall.result = lastCall.files[2].servers

\* ------------------------------------------------- sessions() terminates
InWaitLoop == pc = "waiting"

\* C23: a sessions() call that has reached its wait loop leaves it, whatever
\* the servers answer: it returns the session map, or raises the timeout
\* DSError, or raises the no-sessions DSError.
C23_SessionsTerminates ==
    InWaitLoop ~> (SessionsEnded /\ (returned \/ raised \in {TimeoutError, NoSessionsError}))

\* sessions() raised the timeout error on a server that never answered True,
\* having polled it before the loop and in MaxPolls + 1 iterations.
C23_Witness ==
    /\ SessionsEnded /\ raised = TimeoutError
    /\ Cardinality({i \in 1..Len(calls) :
                       calls[i] = Call(1, "is_session_started", <<>>, "False")}) = MaxPolls + 2

\* ------------------------------------------------- exclusion is not an error
\* The servers whose start_session() or is_session_started() raised in the
\* sessions() call that has ended.
SessionRaised == Called("start_session", "Exception") \cup Called("is_session_started", "Exception")

\* No call of the ended operation raised.
NoCallRaised == \A i \in CallIdx : calls[i].out \notin {"Exception", "DSError"}

\* C24: at the end of sessions(), every connection whose start_session() or
\* is_session_started() raised is excluded, the error map is empty, and
\* nothing is raised unless no connection is left or the timeout was hit; a
\* batch operation on the remaining servers in which no call raises then
\* returns normally with has_errors() false.
C24_ExclusionIsNotAnError ==
    /\ SessionsEnded =>
          /\ SessionRaised \subseteq SeqToSet(excluded)
          /\ ~has_errors
          /\ (SeqToSet(conns) \ SeqToSet(excluded) # {} /\ raised # TimeoutError) =>
                raised = NoError
    /\ (pc = "done" /\ cur.op \in BatchOps /\ excluded # <<>> /\ NoCallRaised) =>
          returned /\ raised = NoError /\ ~has_errors

\* An assign_expr returned normally on the two servers left by a sessions()
\* call that excluded the third.
C24_Witness ==
    /\ Ended("assign_expr") /\ returned
    /\ Len(excluded) = 1 /\ Len(conns) = 2
    /\ Called("assign_expr", "ok") = SeqToSet(conns)
    /\ ~has_errors

\* C25: every connection excluded during a sessions() call is absent from
\* get_connection_names() once the call has ended, whether it returned,
\* raised the no-sessions error or raised the timeout error.
C25_ExcludedAreDroppedHoweverItEnds ==
    SessionsEnded => SeqToSet(excluded) \cap SeqToSet(get_connection_names) = {}

\* The same, for the calls that do not end in the timeout error.
C25_HoldsUnlessTimedOut ==
    (SessionsEnded /\ raised # TimeoutError) =>
        SeqToSet(excluded) \cap SeqToSet(get_connection_names) = {}

\* ------------------------------------------------------ the result wait
\* The operations that wait for results, at their end.
WaitOps == WaitingOps
WaitEnded == pc = "done" /\ cur.op \in WaitOps

\* The servers the command was issued to without an exception: those with a
\* pending result when the wait begins.
Issued == Called(cur.op, "ok")

\* The index of the fetch() on server c's result, 0 if there is none.
FetchAt(c) ==
    LET idx == {i \in CallIdx : calls[i].conn = c /\ calls[i].op = "fetch"}
    IN IF idx = {} THEN 0 ELSE CHOOSE i \in idx : TRUE

\* C27: in one batch call fetch() is invoked at most once per result, right
\* after an is_completed() on that result that answered True, and every
\* is_completed() that answers True is followed by the fetch(); after it the
\* result is no longer pending (no is_completed() or fetch() on it again),
\* whether fetch() returned or raised, and a raise is in the error map.
C27_FetchOnceWhenCompleted ==
    WaitEnded =>
        /\ \A c \in Names : CallCount(c, "fetch") <= 1
        /\ \A i \in CallIdx :
              /\ calls[i].op = "fetch" =>
                    /\ i > 1
                    /\ calls[i - 1] = Call(calls[i].conn, "is_completed", <<>>, "True")
                    /\ calls[i].conn \in Issued
                    /\ \A j \in CallIdx :
                          (j > i /\ calls[j].conn = calls[i].conn) => calls[j].op = "keep_alive"
                    /\ calls[i].out = "Exception" =>
                          /\ calls[i].conn \in DOMAIN errors
                          /\ errors[calls[i].conn] = CommandError(calls[i].conn)
                    /\ calls[i].out = "ok" => calls[i].conn \notin DOMAIN errors
              /\ (calls[i].op = "is_completed" /\ calls[i].out = "True") =>
                    /\ i < Len(calls)
                    /\ calls[i + 1].op = "fetch" /\ calls[i + 1].conn = calls[i].conn

\* Of two results, the fetch of one raised in the first pass and the other
\* was fetched in a later pass.
C27_Witness ==
    /\ WaitEnded /\ Cardinality(Issued) = 2
    /\ \E c \in Called("fetch", "Exception") : CallCount(c, "is_completed") = 1
    /\ \E c \in Called("fetch", "ok") : CallCount(c, "is_completed") > 1

\* The calls of the wait loop, in order: one per visit of a connection.
RECURSIVE VisitsIn(_)
VisitsIn(log) ==
    IF log = <<>> THEN <<>>
    ELSE (IF Head(log).op \in {"is_completed", "keep_alive"} THEN <<Head(log)>> ELSE <<>>)
         \o VisitsIn(Tail(log))

\* C28: the wait loop visits the live connections pass after pass, each once
\* per pass and in order; the visit is a keep_alive() exactly when the
\* connection has no pending result then (none was issued, or it has been
\* fetched), and an is_completed() exactly when its result is pending.
C28_KeepAliveOnIdleConnectionsOnly ==
    WaitEnded =>
        LET visits == VisitsIn(calls)
        IN /\ \A k \in 1..Len(visits) : visits[k].conn = conns[((k - 1) % Len(conns)) + 1]
           /\ Len(visits) % Len(conns) = 0
           /\ \A i \in CallIdx :
                 LET c == calls[i].conn
                     pending == c \in Issued /\ (FetchAt(c) = 0 \/ i < FetchAt(c))
                 IN /\ calls[i].op = "keep_alive" => ~pending
                    /\ calls[i].op = "is_completed" => pending

\* A wait of two passes over two connections: one is kept alive in the
\* second pass, its result having been fetched in the first, the other is
\* asked in both.
C28_Witness ==
    /\ WaitEnded /\ Len(conns) = 2
    /\ \E c \in Issued : CallCount(c, "keep_alive") = 1 /\ CallCount(c, "is_completed") = 1
    /\ \E c \in Issued : CallCount(c, "keep_alive") = 0 /\ CallCount(c, "is_completed") = 2

\* ------------------------------------------------ fan-out, call by call
\* A waiting operation has ended, having got past its sessions() call.
CallEnded == pc = "done" /\ cur.op \in WaitOps /\ cur.reached
NamedEnded == CallEnded /\ cur.op \in {"assign_table", "assign_resource"}

\* The argument the call gives for server c, as the caller reads it: the
\* override map's value when c is one of its keys, the default otherwise.
Effective(c) == IF c \in DOMAIN cur.overrides THEN cur.overrides[c] ELSE cur.default

\* The live connections the ended call has a command for.
ToIssue ==
    IF cur.op \in {"assign_table", "assign_resource"}
    THEN {c \in SeqToSet(conns) : Effective(c) \notin {NoneVal, ""}}
    ELSE SeqToSet(conns)

\* C26: in assign_table, assign_resource, assign_expr and aggregate, the
\* command is issued once to every live connection the call has a command
\* for, whichever of them raise; every result that was issued is polled and
\* fetched, whichever issues and fetches raise; and the error map holds,
\* under its server's name, the exception of every issue and fetch that
\* raised, and nothing else.
C26_NoPartialAbort ==
    CallEnded =>
        /\ Called(cur.op, "ok") \cup Called(cur.op, "Exception") = ToIssue
        /\ \A c \in ToIssue : CallCount(c, cur.op) = 1
        /\ Called("fetch", "ok") \cup Called("fetch", "Exception") = Called(cur.op, "ok")
        /\ Called("is_completed", "True") = Called(cur.op, "ok")
        /\ \A c \in Called(cur.op, "ok") : CallCount(c, "fetch") = 1
        /\ DOMAIN errors = Called(cur.op, "Exception") \cup Called("fetch", "Exception")
        /\ \A c \in DOMAIN errors : errors[c] = CommandError(c)

\* The first connection raised at issue, the second one's command was
\* issued after that and its result fetched.
C26_Witness ==
    /\ CallEnded /\ Len(conns) = 2
    /\ conns[1] \in Called(cur.op, "Exception")
    /\ conns[2] \in Called("fetch", "ok")
    /\ DOMAIN errors = {conns[1]}

\* C30: in assign_table and assign_resource, server s gets the command, with
\* the override map's value for s when s is a key of the map and the default
\* otherwise, if and only if that argument is not empty; a server left out
\* gets no call at all (no command, no is_completed, no fetch) and no error
\* entry, and a call that leaves every server out returns normally.
C30_ArgumentResolution ==
    NamedEnded =>
        /\ \A c \in SeqToSet(conns) :
              IF Effective(c) \notin {NoneVal, ""}
              THEN \E i \in CallIdx :
                     /\ calls[i].conn = c /\ calls[i].op = cur.op
                     /\ calls[i].arg = <<cur.symbol, Effective(c)>>
              ELSE /\ \A i \in CallIdx :
                         calls[i].conn = c => calls[i].op \notin {cur.op, "is_completed", "fetch"}
                   /\ c \notin DOMAIN errors
        /\ ToIssue = {} => returned /\ raised = NoError /\ ~has_errors

\* Of two servers, one took the override of the map and the other was left
\* out, its override being empty although the default is not.
C30_Witness ==
    /\ NamedEnded /\ Len(conns) = 2
    /\ cur.default = "T"
    /\ \E c \in SeqToSet(conns) :
         c \in DOMAIN cur.overrides /\ cur.overrides[c] = "" /\ CallCount(c, cur.op) = 0
    /\ \E i \in CallIdx : calls[i].op = cur.op /\ calls[i].arg = <<cur.symbol, "U">>

\* ------------------------------------------- the error map is per call
\* The servers on which a call of the log raised.
RaisedIn(log) == {log[i].conn : i \in {j \in 1..Len(log) : log[j].out = "Exception"}}

\* C31: sessions(), alone or as the first statement of ls, rm, assign_table,
\* assign_resource, assign_expr and aggregate, leaves the error map empty
\* whatever it held (entries of an earlier batch call, or of a fail-safe
\* open) and however it ends; the map is untouched up to the operation's own
\* loops, after which its keys are the servers on which a call of these loops
\* raised, each with that exception.
C31_ErrorsAreThoseOfTheCall ==
    [][ /\ SessionsStep => errors' = EmptyMap
        /\ pc = "sessions_done" => errors' = errors
        /\ pc = "fanout" =>
              /\ DOMAIN errors' = RaisedIn(calls')
              /\ \A c \in DOMAIN errors' : errors'[c] = CommandError(c)
      ]_vars

\* sessions() has ended with an empty error map on the two connections that
\* a fail-safe open() of three logins made: none of them had a session, so
\* no call since that open() has dropped a connection or emptied the map,
\* which held the error of the third login.
C31_Witness ==
    /\ pc = "sessions_done"
    /\ Len(logins) = 3 /\ Len(conns) = 2 /\ excluded = <<>>
    /\ Called("has_session", "False") = SeqToSet(conns)
    /\ errors = EmptyMap

\* ------------------------------------------------------ listing operations
\* A step that is a whole listing call.
ListingStep == pc = "idle" /\ cur'.op \in ListingOps

\* C32: a listing operation calls its connection method, and nothing else,
\* on the live connections in order; when a call raises, that exception
\* reaches the caller and no later connection is asked; when none raises the
\* map has the value of every live connection; and in every case the error
\* map, the live connections and their sessions are as they were.
C32_ListingPropagatesAndWritesNothing ==
    [][ ListingStep =>
          /\ errors' = errors /\ errorsIsNone' = errorsIsNone
          /\ conns' = conns /\ connsIsNone' = connsIsNone
          /\ session' = session
          /\ Len(calls') <= Len(get_connection_names)
          /\ \A i \in 1..Len(calls') :
                /\ calls'[i].conn = conns[i]
                /\ calls'[i].op = ListMethod(cur'.op)
                /\ calls'[i].out = "Exception" =>
                      (i = Len(calls') /\ raised' = ListingError(conns[i]) /\ ~returned')
                /\ calls'[i].out = "ok" =>
                      (conns[i] \in DOMAIN rval'
                       /\ rval'[conns[i]] = ListedValue(conns[i], calls'[i].op, calls'[i].arg))
          /\ (~connsIsNone /\ RaisedIn(calls') = {}) =>
                (returned' /\ raised' = NoError /\ DOMAIN rval' = SeqToSet(conns))
      ]_vars

\* A listing over the two connections of a fail-safe open() of three
\* logins: the first raised, the second was not asked, and the error of the
\* open() is still in the map.
C32_Witness ==
    /\ pc = "done" /\ cur.op \in ListingOps
    /\ Len(logins) = 3 /\ Len(conns) = 2
    /\ calls = <<Call(conns[1], ListMethod(cur.op), <<>>, "Exception")>>
    /\ raised = ListingError(conns[1])
    /\ DOMAIN errors = SeqToSet(logins) \ SeqToSet(conns)

\* ------------------------------------------- names of a registry
UniqueNames(its) == \A i, j \in 1..Len(its) : its[i].name = its[j].name => i = j

\* C33: in every state of a DSLoginBuilder, constructed with or without
\* names to seed from the configuration and after any adds and removes, no
\* two entries of the registry have the same name.
C33_RegistryNamesAreUnique == UniqueNames(items)

\* What holds of C33: add() and remove() never make a name-unique registry
\* lose that, and a remove() leaves no entry under the name it was given.
C33_AddAndRemoveKeepUniqueness ==
    [][ /\ UniqueNames(items) => UniqueNames(items')
        /\ lastCall'.op = "remove" => ~HasName(items', lastCall'.name)
      ]_vars

\* ------------------------------------------------- the session map
\* C34: when sessions() returns normally, the keys of the returned map are
\* exactly the live connection names; each of them answered True to
\* is_session_started() in that call and holds that connection's session
\* handle; no excluded connection and no connection whose session is not
\* started is a key.
C34_SessionMapIsTheLiveStartedConnections ==
    pc = "sessions_done" =>
        /\ returned
        /\ DOMAIN rval = SeqToSet(get_connection_names)
        /\ DOMAIN rval \subseteq Called("is_session_started", "True")
        /\ DOMAIN rval \cap SeqToSet(excluded) = {}
        /\ \A c \in DOMAIN rval : rval[c] = SessionHandle(c) /\ session[c] = "started"

\* sessions() returned the handles of two of three connections, one of
\* which had first answered False; the third was excluded.
C34_Witness ==
    /\ pc = "sessions_done"
    /\ Len(logins) = 3 /\ Len(excluded) = 1
    /\ Cardinality(DOMAIN rval) = 2
    /\ Called("is_session_started", "False") # {}
    /\ Called("is_session_started", "Exception") # {}

\* ------------------------------------------- the order of the connections
\* s is t with some of its elements left out.
RECURSIVE IsSubsequence(_, _)
IsSubsequence(s, t) ==
    IF s = <<>> THEN TRUE
    ELSE IF t = <<>> THEN FALSE
    ELSE IF Head(s) = Head(t) THEN IsSubsequence(Tail(s), Tail(t))
    ELSE IsSubsequence(s, Tail(t))

\* The connection method by which a batch operation issues its command.
CommandOf(op) ==
    IF op = "ls" THEN "list_symbols" ELSE IF op = "rm" THEN "rm_symbol" ELSE op

\* The servers the ended operation issued its command to, in the order of
\* the calls.
IssuedInOrder ==
    LET issues == SelectSeq(calls, LAMBDA k : k.op = CommandOf(cur.op))
    IN [i \in 1..Len(issues) |-> issues[i].conn]

\* C35: in every state the live connection list is the login list with
\* some logins left out (the order kept, a login at most once); and a batch
\* operation issues its command to the live connections in the order of that
\* list, each at most once, and to all of them unless the call has no
\* argument for a server (assign_table, assign_resource).
C35_ConnectionsKeepLoginOrder ==
    /\ IsSubsequence(get_connection_names, logins)
    /\ (pc = "done" /\ cur.op \in BatchOps) =>
          /\ IsSubsequence(IssuedInOrder, conns)
          /\ cur.op \notin {"assign_table", "assign_resource"} => IssuedInOrder = conns

\* An rm on the first and the third of three logins, in that order, the
\* second having been excluded by sessions().
C35_Witness ==
    /\ Ended("rm")
    /\ Len(logins) = 3
    /\ excluded = <<logins[2]>>
    /\ conns = <<logins[1], logins[3]>>
    /\ IssuedInOrder = conns

\* ------------------------------------------------- sessions are started once
\* C36: start_session is called by sessions() only, with asynchronous=True,
\* right after a has_session() of the same connection that answered False,
\* at most once per connection in a call, and on a connection that had no
\* session before the call: a connection that has a session is not started
\* again, by sessions() or by any batch operation, then or later.
C36_StartOnlyWithoutSession ==
    [][ \A i \in 1..Len(calls') :
          calls'[i].op = "start_session" =>
            /\ SessionsStep
            /\ session[calls'[i].conn] = "none"
            /\ calls'[i].arg = <<TRUE>>
            /\ i > 1
            /\ calls'[i - 1] = Call(calls'[i].conn, "has_session", <<>>, "False")
            /\ \A j \in 1..Len(calls') :
                  (calls'[j].op = "start_session" /\ calls'[j].conn = calls'[i].conn) => j = i
      ]_vars

\* sessions() returned, having started the session of a connection that
\* had none and left alone one that had a session from an earlier call.
C36_Witness ==
    /\ pc = "sessions_done"
    /\ Called("has_session", "True") # {}
    /\ Called("start_session", "ok") # {}
    /\ \A c \in Called("has_session", "True") : CallCount(c, "start_session") = 0

\* ------------------------------------------- one map per server
\* C37: when aggregate has done its wait (and ends, by returning or by the
\* aggregate error), every live connection is a key of exactly one of the
\* result map and the error map, and neither map has any other key.
C37_ResultOrErrorNeverBoth ==
    Ended("aggregate") =>
        /\ DOMAIN rval \cap DOMAIN errors = {}
        /\ DOMAIN rval \cup DOMAIN errors = SeqToSet(get_connection_names)

\* An aggregate over three connections: one raised when the command was
\* issued, one when its result was fetched, and the value of the third is
\* the only entry of the result map.
C37_Witness ==
    /\ Ended("aggregate") /\ Len(conns) = 3
    /\ Cardinality(Called("aggregate", "Exception")) = 1
    /\ Cardinality(Called("fetch", "Exception")) = 1
    /\ Cardinality(DOMAIN rval) = 1
    /\ Cardinality(DOMAIN errors) = 2

\* ------------------------------------------- the order of completion
\* The servers of the ended call whose command failed, when it was issued
\* or when its result was fetched, and those whose value was fetched, as
\* the outcomes of the servers give them.
FailedByOutcome == {c \in ToIssue : "raise" \in {cur.io[c].issue, cur.io[c].fetch}}
FetchedByOutcome == ToIssue \ FailedByOutcome

\* The argument tuple the ended call issued to server c.
IssuedArg(c) == calls[FirstCall(c, cur.op)].arg

\* C38: at the end of assign_table, assign_resource, assign_expr and
\* aggregate, the error map and the result map are what the outcome of each
\* server (an error at issue, an error at fetch, or a value) makes them:
\* the pass in which a server completes, and so the order in which the
\* results are fetched, changes neither.
C38_MapsDependOnOutcomesOnly ==
    CallEnded =>
        /\ errors = [c \in FailedByOutcome |-> CommandError(c)]
        /\ raised = (IF FailedByOutcome # {} THEN AggregateError ELSE NoError)
        /\ cur.op = "aggregate" =>
              /\ DOMAIN rval = FetchedByOutcome
              /\ \A c \in DOMAIN rval : rval[c] = FetchedValue(c, cur.op, IssuedArg(c))

\* An aggregate over two servers of which the second completed in the
\* first pass and the first in a later one: the second was fetched first.
C38_Witness ==
    /\ CallEnded /\ cur.op = "aggregate" /\ Len(conns) = 2
    /\ cur.io[conns[1]].done > cur.io[conns[2]].done
    /\ FetchAt(conns[1]) > FetchAt(conns[2]) /\ FetchAt(conns[2]) > 0
    /\ FailedByOutcome # {} /\ FetchedByOutcome # {}

\* ---------------------------------------------- the result wait ends
InResultWait == pc = "result_wait"

\* C29: when every issued result is completed by its server at some time,
\* a call that has entered the result wait ends (returns, or raises the
\* aggregate error) with every issued result fetched; and as long as a
\* result is pending the call stays in the wait, which has no timeout.
C29_ResultWaitEndsWhenAllComplete ==
    /\ InResultWait ~> (pc = "done" /\ cur.fetched = cur.issued
                          /\ raised \in {NoError, AggregateError})
    /\ [][(InResultWait /\ DOMAIN cur.cmd # {}) => InResultWait']_vars

\* The call ended on a pass that fetched one result and kept alive a
\* connection whose result had been fetched in an earlier pass.
C29_Witness ==
    /\ pc = "done" /\ cur.op \in WaitingOps
    /\ Cardinality(cur.issued) = 2 /\ cur.fetched = cur.issued
    /\ Called("keep_alive", "ok") \cap cur.fetched # {}
    /\ Called("fetch", "ok") # {}

\* ------------------------------------------- pending results are polled
\* A step that is one pass of the wait loop: the call stays in the wait
\* and no server changes the state of a result that stays pending.
PassStep ==
    /\ InResultWait /\ InResultWait'
    /\ DOMAIN cur.cmd # {}
    /\ \A c \in DOMAIN cur'.cmd : c \in DOMAIN cur.cmd /\ cur'.cmd[c] = cur.cmd[c]
    /\ vars' # vars

\* The number of is_completed() calls on server c's result in the log.
PolledIn(log, c) ==
    Cardinality({i \in 1..Len(log) : log[i].conn = c /\ log[i].op = "is_completed"})

\* C39: as long as the call is in the wait loop the keys of the pending map
\* are names of live connections and the live connection list does not
\* change; every pass asks is_completed() once of every result that is
\* pending when it begins and of no other, and a result is still pending
\* after the pass exactly when the answer was False.
C39_PendingResultsAreLiveAndPolled ==
    /\ [](InResultWait => DOMAIN cur.cmd \subseteq SeqToSet(get_connection_names))
    /\ [][ /\ InResultWait => (conns' = conns /\ connsIsNone' = connsIsNone)
           /\ PassStep =>
                 /\ \A c \in Names :
                       PolledIn(calls', c) = IF c \in DOMAIN cur.cmd THEN 1 ELSE 0
                 /\ \A c \in DOMAIN cur.cmd :
                       c \in DOMAIN cur'.cmd <=>
                         Call(c, "is_completed", <<>>, "False") \in SeqToSet(calls')
         ]_vars

\* The wait after a pass over two pending results: one was fetched, the
\* other answered False and is still pending.
C39_Witness ==
    /\ InResultWait
    /\ Cardinality(cur.issued) = 2 /\ Cardinality(DOMAIN cur.cmd) = 1
    /\ Called("is_completed", "True") # {}
    /\ Called("is_completed", "False") = DOMAIN cur.cmd
====
